------------------------- MODULE LiquidityMetricsMC -------------------------
\* Two expenses and one staged payment, every order of requests.
EXTENDS LiquidityMetrics

MCShare == [c \in Categories |-> IF c = "RENT" THEN 75 ELSE 50]
MCAmounts == {-1, 2}
MCCardSums == {0, 3}
=============================================================================
