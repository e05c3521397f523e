--------------------------- MODULE AdvanceRequest ---------------------------
(***************************************************************************)
(* Advances on the salary: superior, admin, payment                        *)
(* (AdvanceRequestViewSet and its serializer).  Unlike in the later        *)
(* employee requests no stage is ever merged and nothing can be cancelled. *)
(***************************************************************************)
EXTENDS Documents

AdvanceStatuses ==
  {"PENDING_SUPERIOR", "REJECTED_BY_SUPERIOR", "PENDING_ADMIN", "REJECTED_BY_ADMIN",
   "PENDING_FINANCE", "PAID"}
AdvanceStages == {"SUPERIOR", "ADMIN", "FINANCE"}

AdvanceRow ==
  [kind : {"advance"}, requester : Users, target_superior : Users \cup {NoUser},
   status : AdvanceStatuses, reviewer : [AdvanceStages -> Users \cup {NoUser}]]

\* AdvanceRequestLog has no stage: this is what the text of its action says.
AdvanceEntry ==
  [stage : AdvanceStages \cup {"SUBMIT"}, actor : Users,
   outcome : AdvanceStatuses, listed : {None}]

AdvanceVisible(u, r) ==
  \/ IsAdmin(u)
  \/ u \in {r.requester, r.target_superior}
  \/ r.target_superior = NoUser /\ u \in Above(r.requester)

AdvanceHandles(w, u, i, endpoint) ==
  Handles(w, i, "advance", endpoint) /\ AdvanceVisible(u, row[i])

CreateAdvance(u, i) ==
  \E target \in TargetChoices(u) :
    LET status == IF SuperiorsOf[u] # {} THEN "PENDING_SUPERIOR" ELSE "PENDING_ADMIN"
    IN CreateDocument(i, [kind |-> "advance", requester |-> u, target_superior |-> target,
                          status |-> status,
                          reviewer |-> [stage \in AdvanceStages |-> NoUser]],
                      EntryOf("SUBMIT", u, status), None, {})

UpdateAdvance(w, u, i) ==
  /\ AdvanceHandles(w, u, i, "update")
  /\ \E target \in TargetChoices(u) :
       SavesEdit(w, i, [row[i] EXCEPT !.target_superior = target], NoEntry, NoEdit)

SuperiorReviewAdvance(w, u, i) ==
  LET r == row[i] IN
  /\ AdvanceHandles(w, u, i, "review")
  /\ r.status = "PENDING_SUPERIOR"
  /\ \/ IsAdmin(u)
     \/ r.target_superior = u
     \/ r.target_superior = NoUser /\ IsSuperiorTo(u, r.requester)
  /\ Decides(w, u, i, "SUPERIOR", {"PENDING_ADMIN", "REJECTED_BY_SUPERIOR"}, TRUE)

AdminReviewAdvance(w, u, i) ==
  /\ AdvanceHandles(w, u, i, "review")
  /\ row[i].status = "PENDING_ADMIN"
  /\ IsAdmin(u)
  /\ Decides(w, u, i, "ADMIN", {"PENDING_FINANCE", "REJECTED_BY_ADMIN"}, TRUE)

PayAdvance(w, u, i) ==
  /\ AdvanceHandles(w, u, i, "review")
  /\ row[i].status = "PENDING_FINANCE"
  /\ IsAdmin(u)
  /\ Decides(w, u, i, "FINANCE", {"PAID"}, TRUE)

DestroyAdvance(w, u, i) == AdvanceHandles(w, u, i, "destroy") /\ DestroyDocument(w, i)

AdvanceNext ==
  \/ \E u \in Users, i \in Ids : CreateAdvance(u, i)
  \/ \E w \in Workers, u \in Users, i \in Ids :
       \/ UpdateAdvance(w, u, i) \/ DestroyAdvance(w, u, i)
       \/ SuperiorReviewAdvance(w, u, i) \/ AdminReviewAdvance(w, u, i)
       \/ PayAdvance(w, u, i)

AdvanceDecided(r, H, stage, outcome) ==
  [stage |-> stage, actor |-> r.reviewer[stage], outcome |-> outcome, listed |-> None] \in H

\* The recorded decisions that brought r to its status.
AdvanceBacked(r, H) ==
  /\ r.status \in {"PENDING_ADMIN", "PENDING_FINANCE", "PAID"} =>
       \/ AdvanceDecided(r, H, "SUPERIOR", "PENDING_ADMIN")
       \/ EntryOf("SUBMIT", r.requester, "PENDING_ADMIN") \in H
  /\ r.status \in {"PENDING_FINANCE", "PAID"} => AdvanceDecided(r, H, "ADMIN", "PENDING_FINANCE")
  /\ r.status = "PAID" => AdvanceDecided(r, H, "FINANCE", "PAID")
=============================================================================
