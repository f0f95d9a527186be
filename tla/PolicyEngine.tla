----------------------------- MODULE PolicyEngine -----------------------------
(***************************************************************************)
(* What a constraint set lets through: compilePolicy (compile.ts) and      *)
(* evaluatePolicyAst (evaluate-ast.ts), and what makes one constraint set  *)
(* narrower than another: assertConstraintSubset (constraint-subset.ts).   *)
(*                                                                         *)
(* Domains, methods, categories and intent actions are named up to case,   *)
(* as both sides of every comparison fold it.  Entries of allowedUrls are  *)
(* not: the subset rule folds their case, the policy does not, and a host  *)
(* has no capitals.  URLs are those that parse, as the sandbox refuses any *)
(* other.  A list that is absent and an empty one are the same.            *)
(***************************************************************************)
EXTENDS Integers

CONSTANTS
  Domains,     \* domains of e-mail recipients
  Methods,     \* HTTP methods
  Hosts,       \* hosts of URLs
  Entries,     \* entries of allowedUrls
  Lower,       \* Lower[e]: entry e without capitals
  Above,       \* Above[e]: the entries e equals or is a subdomain of
  Reach,       \* Reach[e]: the hosts that equal e or are a subdomain of it
  Categories,  \* intent categories
  Actions,     \* intent actions
  None         \* a field that is not given

\* A capital letter keeps an entry from matching any host, and an entry within
\* another reaches no further.
ASSUME UrlAssumption ==
  /\ Lower \in [Entries -> Entries]
  /\ Above \in [Entries -> SUBSET Entries]
  /\ Reach \in [Entries -> SUBSET Hosts]
  /\ \A e \in Entries : Lower[Lower[e]] = Lower[e]
  /\ \A e \in Entries : Lower[e] # e => Reach[e] = {}
  /\ \A e, f \in Entries : f \in Above[e] => Reach[e] \subseteq Reach[f]

ASSUME NoneAssumption ==
  /\ None \notin Nat /\ None \notin BOOLEAN /\ None \notin [start : Nat, end : Nat]
  /\ None \notin Domains /\ None \notin Hosts
  /\ None \notin Categories /\ None \notin Actions

Tool == {"gmail.send", "http.request", "slack.send"}

\* ConstraintSet, in the ranges constraintSetSchema leaves.
ConstraintSet ==
  [allowedHours : {h \in [start : 0..23, end : 0..23] : h.start <= h.end} \cup {None},
   maxActions : (Nat \ {0}) \cup {None},
   approvalRequired : BOOLEAN,
   spendingLimit : Nat \cup {None},
   allowedIntentCategories : SUBSET Categories,
   allowedIntentActions : SUBSET Actions,
   allowedDomains : SUBSET Domains,
   approvalRequiredIfExternal : BOOLEAN,
   attachments : BOOLEAN \cup {None},
   allowedMethods : SUBSET Methods,
   allowedUrls : SUBSET Entries]

\* AstEvaluationContext: the payload as far as a leaf reads it, the intent, and
\* what the runtime adds.
Context ==
  [hour : 0..23, actionCount : Nat, approvalGranted : BOOLEAN,
   amount : Nat \cup {None}, category : Categories \cup {None},
   action : Actions \cup {None}, domain : Domains \cup {None},
   attachments : BOOLEAN, method : Methods, host : Hosts \cup {None}]

-----------------------------------------------------------------------------
(* compilePolicy *)

\* The kinds of condition, in the order in which they are pushed.
Rank ==
  [allowed_hours |-> 1, max_actions |-> 2, approval_required |-> 3,
   spending_limit |-> 4, intent_category |-> 5, intent_action |-> 6,
   approval_required_if_external |-> 7, gmail_allowed_domains |-> 7,
   gmail_attachments |-> 8, http_method |-> 9, http_url |-> 10]
Kinds == DOMAIN Rank

Compiles(k, tool, cs) ==
  CASE k = "allowed_hours" -> cs.allowedHours # None
    [] k = "max_actions" -> cs.maxActions # None
    [] k = "approval_required" -> cs.approvalRequired
    [] k = "spending_limit" -> cs.spendingLimit # None
    [] k = "intent_category" -> cs.allowedIntentCategories # {}
    [] k = "intent_action" -> cs.allowedIntentActions # {}
    [] k = "approval_required_if_external" ->
         tool = "gmail.send" /\ cs.allowedDomains # {} /\ cs.approvalRequiredIfExternal
    [] k = "gmail_allowed_domains" ->
         tool = "gmail.send" /\ cs.allowedDomains # {} /\ ~cs.approvalRequiredIfExternal
    [] k = "gmail_attachments" -> tool = "gmail.send" /\ cs.attachments = FALSE
    [] k = "http_method" -> tool = "http.request" /\ cs.allowedMethods # {}
    [] k = "http_url" -> tool = "http.request" /\ cs.allowedUrls # {}

Compiled(tool, cs) == {k \in Kinds : Compiles(k, tool, cs)}

-----------------------------------------------------------------------------
(* evaluateCondition *)

Passes(k, cs, x) ==
  CASE k = "allowed_hours" -> x.hour \in cs.allowedHours.start..cs.allowedHours.end
    [] k = "max_actions" -> x.actionCount < cs.maxActions
    [] k = "approval_required" -> x.approvalGranted
    [] k = "spending_limit" ->
         x.amount = None \/ x.amount <= cs.spendingLimit \/ x.approvalGranted
    [] k = "intent_category" -> x.category \in cs.allowedIntentCategories
    [] k = "intent_action" ->
         x.category # None /\ x.action \in cs.allowedIntentActions
    [] k \in {"approval_required_if_external", "gmail_allowed_domains"} ->
         x.domain = None \/ x.domain \in cs.allowedDomains \/ x.approvalGranted
    [] k = "gmail_attachments" -> ~x.attachments
    [] k = "http_method" -> x.method \in cs.allowedMethods
    [] k = "http_url" ->
         x.host = None \/ \E e \in cs.allowedUrls : x.host \in Reach[e]

\* The decision of a leaf that does not pass.
Refusal(k) ==
  IF k \in {"approval_required", "spending_limit", "approval_required_if_external"}
  THEN "REQUIRE_APPROVAL"
  ELSE "DENY"

\* evaluateNode stops at the first leaf that does not pass.
Failing(tool, cs, x) == {k \in Compiled(tool, cs) : ~Passes(k, cs, x)}
First(ks) == CHOOSE k \in ks : \A l \in ks : Rank[k] <= Rank[l]

Evaluate(tool, cs, x) ==
  LET failing == Failing(tool, cs, x)
  IN  IF failing = {} THEN "ALLOW" ELSE Refusal(First(failing))

Allows(tool, cs, x) == Evaluate(tool, cs, x) = "ALLOW"

-----------------------------------------------------------------------------
(* assertConstraintSubset: a rule applies when both sides state its field;   *)
(* only approvalRequired may not be left out.                                *)

NumberWithin(parent, child) == parent # None /\ child # None => child <= parent
ListWithin(parent, child) == parent # {} /\ child # {} => child \subseteq parent

\* (The mutant compares the end of the window with its start.)
HoursWithinStart(parent, child) ==
  parent # None /\ child # None => child.start >= parent.start
HoursWithin(parent, child) ==
  parent # None /\ child # None => child.start >= parent.start /\ child.end <= parent.end

UrlsWithin(parent, child) ==
  parent # {} /\ child # {} =>
    \A c \in child : \E p \in parent : Lower[p] \in Above[Lower[c]]

AttachmentsWithin(parent, child) == ~(parent = FALSE /\ child = TRUE)

\* (The mutant lets a child leave the approval out, like any other field.)
ApprovalOptional(parent, child) == TRUE
ApprovalWithin(parent, child) == parent => child

Within(parent, child) ==
  /\ NumberWithin(parent.maxActions, child.maxActions)
  /\ ListWithin(parent.allowedDomains, child.allowedDomains)
  /\ ListWithin(parent.allowedMethods, child.allowedMethods)
  /\ UrlsWithin(parent.allowedUrls, child.allowedUrls)
  /\ AttachmentsWithin(parent.attachments, child.attachments)
  /\ HoursWithin(parent.allowedHours, child.allowedHours)
  /\ NumberWithin(parent.spendingLimit, child.spendingLimit)
  /\ ApprovalWithin(parent.approvalRequired, child.approvalRequired)
  /\ ListWithin(parent.allowedIntentCategories, child.allowedIntentCategories)
  /\ ListWithin(parent.allowedIntentActions, child.allowedIntentActions)

-----------------------------------------------------------------------------

\* The child states every constraint its parent states, and the parent's URL
\* entries are spelled without capitals.
Restates(parent, child) ==
  /\ parent.allowedHours # None => child.allowedHours # None
  /\ parent.maxActions # None => child.maxActions # None
  /\ parent.spendingLimit # None => child.spendingLimit # None
  /\ parent.allowedIntentCategories # {} => child.allowedIntentCategories # {}
  /\ parent.allowedIntentActions # {} => child.allowedIntentActions # {}
  /\ parent.allowedDomains # {} => child.allowedDomains # {}
  /\ parent.attachments = FALSE => child.attachments # None
  /\ parent.allowedMethods # {} => child.allowedMethods # {}
  /\ parent.allowedUrls # {} => child.allowedUrls # {}
  /\ \A e \in parent.allowedUrls : Lower[e] = e
=============================================================================
