----------------------------- MODULE MCDelegation -----------------------------
(***************************************************************************)
(* Small instances of Delegation for TLC.                                  *)
(***************************************************************************)
EXTENDS Delegation

CONSTANTS d1, d2, get, post, top, sub, Top, hTop, hSub, c1, c2, n1, n2, u1

LowerCase == [e \in Entries |-> IF e = Top THEN top ELSE e]
Enclosing ==
  [e \in Entries |-> CASE e = top -> {top} [] e = sub -> {top, sub} [] e = Top -> {Top}]
Reached ==
  [e \in Entries |-> CASE e = top -> {hTop, hSub} [] e = sub -> {hSub} [] e = Top -> {}]

Unstated ==
  [allowedHours |-> None, maxActions |-> None, approvalRequired |-> FALSE,
   spendingLimit |-> None, allowedIntentCategories |-> {}, allowedIntentActions |-> {},
   allowedDomains |-> {}, approvalRequiredIfExternal |-> FALSE, attachments |-> None,
   allowedMethods |-> {}, allowedUrls |-> {}]

Wide ==
  [allowedHours |-> [start |-> 0, end |-> 1], maxActions |-> 2,
   approvalRequired |-> FALSE, spendingLimit |-> 1,
   allowedIntentCategories |-> {c1, c2}, allowedIntentActions |-> {n1, n2},
   allowedDomains |-> {d1, d2}, approvalRequiredIfExternal |-> TRUE,
   attachments |-> TRUE, allowedMethods |-> {get, post}, allowedUrls |-> {top}]

Narrow ==
  [allowedHours |-> [start |-> 0, end |-> 0], maxActions |-> 1,
   approvalRequired |-> FALSE, spendingLimit |-> 0,
   allowedIntentCategories |-> {c1}, allowedIntentActions |-> {n1},
   allowedDomains |-> {d1}, approvalRequiredIfExternal |-> FALSE,
   attachments |-> FALSE, allowedMethods |-> {get}, allowedUrls |-> {sub}]

\* Narrow but for its hours; with an approval; with a capital in its URL.
Sets ==
  {Unstated, Wide, Narrow,
   [Narrow EXCEPT !.allowedHours = [start |-> 0, end |-> 1]],
   [Wide EXCEPT !.approvalRequired = TRUE, !.allowedUrls = {Top}]}

\* Each set for the longest lifetime, by a delegator or without one; a token
\* without a lifetime, and one that is refused.
AllAsks ==
  {[constraints |-> cs, life |-> 2,
    delegator |-> IF cs.approvalRequired \/ cs = Wide THEN u1 ELSE None] : cs \in Sets}
    \cup {[constraints |-> Unstated, life |-> n, delegator |-> None] : n \in {0, 3}}

\* Nothing stated; a parent nobody knows; a depth that is too deep already.
Stated ==
  {[parent |-> None, depth |-> None, chain |-> <<>>],
   [parent |-> 0, depth |-> 1, chain |-> <<u1>>],
   [parent |-> None, depth |-> 3, chain |-> <<>>]}

\* A call that every set allows, and those that differ from it in one respect.
Plain ==
  [hour |-> 0, actionCount |-> 0, approvalGranted |-> FALSE, amount |-> None,
   category |-> c1, action |-> n1, domain |-> d1, attachments |-> FALSE,
   method |-> get, host |-> hSub]
Calls ==
  {Plain, [Plain EXCEPT !.hour = 1], [Plain EXCEPT !.actionCount = 1],
   [Plain EXCEPT !.approvalGranted = TRUE], [Plain EXCEPT !.amount = 1],
   [Plain EXCEPT !.category = c2], [Plain EXCEPT !.action = None],
   [Plain EXCEPT !.domain = d2], [Plain EXCEPT !.attachments = TRUE],
   [Plain EXCEPT !.method = post], [Plain EXCEPT !.host = hTop]}
=============================================================================
