--------------------------- MODULE DelegationProofs ---------------------------
(***************************************************************************)
(* Proofs about PolicyEngine and Delegation: what the subset rules imply   *)
(* for the policies of two constraint sets, and what follows for chains of *)
(* delegated tokens of any length.                                         *)
(***************************************************************************)
EXTENDS Delegation, FiniteSetTheorems, SequenceTheorems, TLAPS

-----------------------------------------------------------------------------
(* Policies *)

\* A call is allowed exactly if every condition that was compiled passes.
LEMMA AllowsMeansPasses ==
  ASSUME NEW tool, NEW cs, NEW x
  PROVE  Allows(tool, cs, x)
           <=> \A k \in Kinds : Compiles(k, tool, cs) => Passes(k, cs, x)
<1>1. \A k : Refusal(k) # "ALLOW"
  BY DEF Refusal
<1>2. Allows(tool, cs, x) <=> Failing(tool, cs, x) = {}
  BY <1>1 DEF Allows, Evaluate
<1>3. Failing(tool, cs, x) = {}
        <=> \A k \in Kinds : Compiles(k, tool, cs) => Passes(k, cs, x)
  BY DEF Failing, Compiled
<1> QED
  BY <1>2, <1>3

LEMMA KindsAre ==
  Kinds = {"allowed_hours", "max_actions", "approval_required", "spending_limit",
           "intent_category", "intent_action", "approval_required_if_external",
           "gmail_allowed_domains", "gmail_attachments", "http_method", "http_url"}
  BY DEF Kinds, Rank

\* A constraint set that is within another and restates it compiles, for each
\* condition of the other, one that lets no more through.
THEOREM Attenuation ==
  ASSUME NEW tool \in Tool, NEW parent \in ConstraintSet, NEW child \in ConstraintSet,
         NEW x \in Context, Within(parent, child), Restates(parent, child),
         Allows(tool, child, x)
  PROVE  Allows(tool, parent, x)
<1>0. \A k \in Kinds : Compiles(k, tool, child) => Passes(k, child, x)
  BY AllowsMeansPasses
<1> SUFFICES ASSUME NEW k \in Kinds, Compiles(k, tool, parent) PROVE Passes(k, parent, x)
  BY AllowsMeansPasses
<1>1. CASE k = "allowed_hours"
  <2>1. parent.allowedHours # None
    BY <1>1 DEF Compiles
  <2>2. /\ child.allowedHours # None
        /\ child.allowedHours.start >= parent.allowedHours.start
        /\ child.allowedHours.end <= parent.allowedHours.end
    BY <2>1 DEF Within, Restates, HoursWithin
  <2>3. Compiles("allowed_hours", tool, child)
    BY <2>2 DEF Compiles
  <2>4. x.hour \in child.allowedHours.start..child.allowedHours.end
    BY <1>0, <2>3, KindsAre DEF Passes
  <2>5. /\ parent.allowedHours \in [start : 0..23, end : 0..23]
        /\ child.allowedHours \in [start : 0..23, end : 0..23]
        /\ x.hour \in 0..23
    BY <2>1, <2>2 DEF ConstraintSet, Context
  <2>6. x.hour \in parent.allowedHours.start..parent.allowedHours.end
    BY <2>2, <2>4, <2>5
  <2> QED
    BY <1>1, <2>6 DEF Passes
<1>2. CASE k = "max_actions"
  <2>1. parent.maxActions # None /\ child.maxActions # None
        /\ child.maxActions <= parent.maxActions
    BY <1>2 DEF Compiles, Within, Restates, NumberWithin
  <2>2. Compiles("max_actions", tool, child)
    BY <2>1 DEF Compiles
  <2>3. x.actionCount < child.maxActions
    BY <1>0, <2>2, KindsAre DEF Passes
  <2>4. parent.maxActions \in Nat /\ child.maxActions \in Nat /\ x.actionCount \in Nat
    BY <2>1 DEF ConstraintSet, Context
  <2>5. x.actionCount < parent.maxActions
    BY <2>1, <2>3, <2>4
  <2> QED
    BY <1>2, <2>5 DEF Passes
<1>3. CASE k = "approval_required"
  <2>1. Compiles("approval_required", tool, child)
    BY <1>3 DEF Compiles, Within, ApprovalWithin
  <2>2. x.approvalGranted
    BY <1>0, <2>1, KindsAre DEF Passes
  <2> QED
    BY <1>3, <2>2 DEF Passes
<1>4. CASE k = "spending_limit"
  <2>1. parent.spendingLimit # None /\ child.spendingLimit # None
        /\ child.spendingLimit <= parent.spendingLimit
    BY <1>4 DEF Compiles, Within, Restates, NumberWithin
  <2>2. Compiles("spending_limit", tool, child)
    BY <2>1 DEF Compiles
  <2>3. x.amount = None \/ x.amount <= child.spendingLimit \/ x.approvalGranted
    BY <1>0, <2>2, KindsAre DEF Passes
  <2>4. parent.spendingLimit \in Nat /\ child.spendingLimit \in Nat
        /\ x.amount \in Nat \cup {None}
    BY <2>1 DEF ConstraintSet, Context
  <2>5. x.amount = None \/ x.amount <= parent.spendingLimit \/ x.approvalGranted
    BY <2>1, <2>3, <2>4
  <2> QED
    BY <1>4, <2>5 DEF Passes
<1>5. CASE k = "intent_category"
  <2>1. /\ Compiles("intent_category", tool, child)
        /\ child.allowedIntentCategories \subseteq parent.allowedIntentCategories
    BY <1>5 DEF Compiles, Within, Restates, ListWithin
  <2>2. x.category \in child.allowedIntentCategories
    BY <1>0, <2>1, KindsAre DEF Passes
  <2> QED
    BY <1>5, <2>1, <2>2 DEF Passes
<1>6. CASE k = "intent_action"
  <2>1. /\ Compiles("intent_action", tool, child)
        /\ child.allowedIntentActions \subseteq parent.allowedIntentActions
    BY <1>6 DEF Compiles, Within, Restates, ListWithin
  <2>2. x.category # None /\ x.action \in child.allowedIntentActions
    BY <1>0, <2>1, KindsAre DEF Passes
  <2> QED
    BY <1>6, <2>1, <2>2 DEF Passes
<1>7. CASE k \in {"approval_required_if_external", "gmail_allowed_domains"}
  <2>1. tool = "gmail.send" /\ parent.allowedDomains # {}
    BY <1>7 DEF Compiles
  <2>2. /\ child.allowedDomains # {}
        /\ child.allowedDomains \subseteq parent.allowedDomains
    BY <2>1 DEF Within, Restates, ListWithin
  <2>3. \/ Compiles("approval_required_if_external", tool, child)
        \/ Compiles("gmail_allowed_domains", tool, child)
    BY <2>1, <2>2 DEF Compiles
  <2>4. x.domain = None \/ x.domain \in child.allowedDomains \/ x.approvalGranted
    BY <1>0, <2>3, KindsAre DEF Passes
  <2> QED
    BY <1>7, <2>2, <2>4 DEF Passes
<1>8. CASE k = "gmail_attachments"
  <2>1. tool = "gmail.send" /\ parent.attachments = FALSE
    BY <1>8 DEF Compiles
  <2>2. child.attachments \in BOOLEAN \cup {None}
    BY DEF ConstraintSet
  <2>3. child.attachments = FALSE
    BY <2>1, <2>2 DEF Within, Restates, AttachmentsWithin
  <2>4. Compiles("gmail_attachments", tool, child)
    BY <2>1, <2>3 DEF Compiles
  <2>5. ~x.attachments
    BY <1>0, <2>4, KindsAre DEF Passes
  <2> QED
    BY <1>8, <2>5 DEF Passes
<1>9. CASE k = "http_method"
  <2>1. /\ Compiles("http_method", tool, child)
        /\ child.allowedMethods \subseteq parent.allowedMethods
    BY <1>9 DEF Compiles, Within, Restates, ListWithin
  <2>2. x.method \in child.allowedMethods
    BY <1>0, <2>1, KindsAre DEF Passes
  <2> QED
    BY <1>9, <2>1, <2>2 DEF Passes
<1>10. CASE k = "http_url"
  <2>1. /\ tool = "http.request" /\ parent.allowedUrls # {} /\ child.allowedUrls # {}
        /\ \A e \in parent.allowedUrls : Lower[e] = e
        /\ UrlsWithin(parent.allowedUrls, child.allowedUrls)
    BY <1>10 DEF Compiles, Within, Restates
  <2>2. Compiles("http_url", tool, child)
    BY <2>1 DEF Compiles
  <2>3. x.host = None \/ \E e \in child.allowedUrls : x.host \in Reach[e]
    BY <1>0, <2>2, KindsAre DEF Passes
  <2>4. parent.allowedUrls \subseteq Entries /\ child.allowedUrls \subseteq Entries
    BY DEF ConstraintSet
  <2>5. ASSUME NEW c \in child.allowedUrls, x.host \in Reach[c]
        PROVE  \E p \in parent.allowedUrls : x.host \in Reach[p]
    <3>1. Lower[c] = c
      BY <2>4, <2>5, UrlAssumption
    <3>2. PICK p \in parent.allowedUrls : Lower[p] \in Above[Lower[c]]
      BY <2>1 DEF UrlsWithin
    <3>3. p \in Above[c]
      BY <2>1, <3>1, <3>2
    <3> QED
      BY <2>4, <2>5, <3>3, UrlAssumption
  <2>6. x.host = None \/ \E e \in parent.allowedUrls : x.host \in Reach[e]
    BY <2>3, <2>5
  <2> QED
    BY <1>10, <2>6 DEF Passes
<1> QED
  BY <1>1, <1>2, <1>3, <1>4, <1>5, <1>6, <1>7, <1>8, <1>9, <1>10, KindsAre

\* Without an approval, a constraint set that requires one allows nothing.
LEMMA ApprovalNeeded ==
  ASSUME NEW tool, NEW cs, NEW x, cs.approvalRequired, ~x.approvalGranted
  PROVE  ~Allows(tool, cs, x)
<1>1. "approval_required" \in Kinds /\ Compiles("approval_required", tool, cs)
  BY KindsAre DEF Compiles
<1>2. ~Passes("approval_required", cs, x)
  BY DEF Passes
<1> QED
  BY <1>1, <1>2, AllowsMeansPasses

-----------------------------------------------------------------------------
(* Minting *)

\* A parent is a token with a lifetime.
ParentLives(p) == p \in Minted /\ tokens[p].iat < tokens[p].exp

\* TypeOK in terms of sequences; a token descends from older tokens only.
Shape ==
  /\ tokens \in Seq(Claims)
  /\ ancestors \in Seq(SUBSET Nat)
  /\ strict \in Seq(BOOLEAN)
  /\ Len(ancestors) = Len(tokens)
  /\ Len(strict) = Len(tokens)
  /\ now \in Nat
  /\ \A j \in Minted : ancestors[j] \subseteq 1..(j - 1)
  /\ \A j \in Minted : tokens[j].iat <= tokens[j].exp /\ tokens[j].iat <= now
  /\ \A j \in Minted : tokens[j].exp <= tokens[j].iat + MaxLife
  /\ \A j \in Minted : ancestors[j] # {} => ParentLives(tokens[j].parent)

LEMMA ClaimsTyped ==
  ASSUME NEW t \in Claims
  PROVE  /\ t.tool \in Tool /\ t.constraints \in ConstraintSet
         /\ t.iat \in Nat /\ t.exp \in Nat
         /\ t.delegator \in Delegators \cup {None}
         /\ t.parent \in Nat \cup {None} /\ t.depth \in Nat \cup {None}
         /\ t.chain \in Seq(Delegators)
         /\ Depth(t) \in Nat
<1> HIDE DEF ConstraintSet, Tool
<1>1. /\ t.tool \in Tool /\ t.constraints \in ConstraintSet
      /\ t.iat \in Nat /\ t.exp \in Nat
      /\ t.delegator \in Delegators \cup {None}
      /\ t.parent \in Nat \cup {None} /\ t.depth \in Nat \cup {None}
      /\ t.chain \in Seq(Delegators)
  BY DEF Claims
<1>2. Depth(t) \in Nat
  BY <1>1 DEF Depth
<1> QED
  BY <1>1, <1>2

\* What is left of the old tokens, and what the new one is.
Added(claims, from, narrowing) ==
  /\ Len(tokens') = Len(tokens) + 1
  /\ Len(ancestors') = Len(tokens) + 1
  /\ Len(strict') = Len(tokens) + 1
  /\ \A j \in Minted : /\ tokens'[j] = tokens[j]
                       /\ ancestors'[j] = ancestors[j]
                       /\ strict'[j] = strict[j]
  /\ tokens'[Len(tokens) + 1] = claims
  /\ ancestors'[Len(tokens) + 1] = from
  /\ strict'[Len(tokens) + 1] = narrowing
  /\ now' = now

LEMMA MintAdds ==
  ASSUME Shape, NEW claims \in Claims, NEW from \in SUBSET Minted, NEW narrowing \in BOOLEAN,
         claims.iat = now, claims.exp \in now..(now + MaxLife),
         from # {} => ParentLives(claims.parent), Mint(claims, from, narrowing)
  PROVE  /\ Added(claims, from, narrowing)
         /\ Shape'
         /\ Len(tokens) \in Nat
         /\ \A j \in 1..Len(tokens') : j \in Minted \/ j = Len(tokens) + 1
<1> DEFINE n == Len(tokens)
<1>1. /\ tokens \in Seq(Claims) /\ ancestors \in Seq(SUBSET Nat) /\ strict \in Seq(BOOLEAN)
      /\ Len(ancestors) = n /\ Len(strict) = n /\ now \in Nat /\ n \in Nat
  BY DEF Shape
<1>2. /\ tokens' = Append(tokens, claims) /\ ancestors' = Append(ancestors, from)
      /\ strict' = Append(strict, narrowing) /\ now' = now
  BY DEF Mint
<1>3. from \in SUBSET Nat
  BY <1>1 DEF Minted
<1> HIDE DEF Claims
<1>4. /\ tokens' \in Seq(Claims) /\ Len(tokens') = n + 1 /\ tokens'[n + 1] = claims
      /\ \A j \in 1..n : tokens'[j] = tokens[j]
  BY <1>1, <1>2, AppendProperties
<1>5. /\ ancestors' \in Seq(SUBSET Nat) /\ Len(ancestors') = n + 1 /\ ancestors'[n + 1] = from
      /\ \A j \in 1..n : ancestors'[j] = ancestors[j]
  BY <1>1, <1>2, <1>3, AppendProperties
<1>6. /\ strict' \in Seq(BOOLEAN) /\ Len(strict') = n + 1 /\ strict'[n + 1] = narrowing
      /\ \A j \in 1..n : strict'[j] = strict[j]
  BY <1>1, <1>2, AppendProperties
<1>7. Added(claims, from, narrowing)
  BY <1>2, <1>4, <1>5, <1>6 DEF Added, Minted
<1>8. \A j \in 1..(n + 1) : j \in 1..n \/ j = n + 1
  BY <1>1
<1>9. ASSUME NEW j \in Minted'
      PROVE  /\ ancestors'[j] \subseteq 1..(j - 1)
             /\ tokens'[j].iat <= tokens'[j].exp /\ tokens'[j].iat <= now'
             /\ tokens'[j].exp <= tokens'[j].iat + MaxLife
             /\ ancestors'[j] # {} => ParentLives(tokens'[j].parent)
  <2>1. CASE j \in 1..n
    BY <1>2, <1>4, <1>5, <2>1 DEF Shape, Minted
  <2>2. CASE j = n + 1
    <3>1. tokens'[j] = claims /\ ancestors'[j] = from /\ j - 1 = n
      BY <1>1, <1>4, <1>5, <2>2
    <3>2. claims.iat <= claims.exp /\ claims.exp <= claims.iat + MaxLife
      BY <1>1, DelegationAssumption
    <3> QED
      BY <1>1, <1>2, <3>1, <3>2 DEF Minted
  <2> QED
    BY <1>4, <1>8, <2>1, <2>2 DEF Minted
<1>10. Shape'
  <2>1. Len(ancestors') = Len(tokens') /\ Len(strict') = Len(tokens') /\ now' \in Nat
    BY <1>1, <1>2, <1>4, <1>5, <1>6
  <2>2. ASSUME NEW p, ParentLives(p)
        PROVE  p \in Minted' /\ tokens'[p].iat < tokens'[p].exp
    BY <1>1, <1>4, <2>2 DEF ParentLives, Minted
  <2>3. \A j \in Minted' : ancestors'[j] # {} =>
          LET p == tokens'[j].parent IN p \in Minted' /\ tokens'[p].iat < tokens'[p].exp
    BY <1>9, <2>2
  <2>4. \A j \in Minted' : ancestors'[j] # {} => ParentLives(tokens[j].parent)'
    BY <2>3 DEF ParentLives
  <2> QED
    BY <1>4, <1>5, <1>6, <1>9, <2>1, <2>4 DEF Shape
<1> QED
  BY <1>1, <1>4, <1>7, <1>8, <1>10 DEF Minted

\* A grant and a delegation, each as one token that is added.
Granted(tool, ask, lineage) ==
  Added([tool |-> tool, constraints |-> ask.constraints, iat |-> now,
         exp |-> now + ask.life, delegator |-> ask.delegator,
         parent |-> lineage.parent, depth |-> lineage.depth, chain |-> lineage.chain],
        {}, TRUE)
Delegated(j, ask) ==
  Added([tool |-> tokens[j].tool, constraints |-> ask.constraints, iat |-> now,
         exp |-> now + ask.life, delegator |-> ask.delegator,
         parent |-> j, depth |-> Depth(tokens[j]) + 1,
         chain |-> ChainOf(tokens[j], ask.delegator)],
        ancestors[j] \cup {j},
        strict[j] /\ Restates(tokens[j].constraints, ask.constraints))

NothingAdded == UNCHANGED <<tokens, ancestors, strict>>

LEMMA AsksTyped ==
  ASSUME NEW ask \in Asks
  PROVE  /\ ask.constraints \in ConstraintSet /\ ask.life \in Nat
         /\ ask.delegator \in Delegators \cup {None}
<1> HIDE DEF ConstraintSet
<1> QED
  BY DelegationAssumption

LEMMA LineagesTyped ==
  ASSUME NEW lineage \in Lineages
  PROVE  /\ lineage.parent \in Nat \cup {None} /\ lineage.depth \in Nat \cup {None}
         /\ lineage.chain \in Seq(Delegators)
  BY DelegationAssumption

LEMMA ChainTyped ==
  ASSUME NEW t \in Claims, NEW d \in Delegators \cup {None}
  PROVE  /\ Named(d) \in Seq(Delegators) /\ Named(t.delegator) \in Seq(Delegators)
         /\ t.chain \o Named(t.delegator) \in Seq(Delegators)
         /\ ChainOf(t, d) \in Seq(Delegators)
<1>1. t.chain \in Seq(Delegators) /\ t.delegator \in Delegators \cup {None}
  BY ClaimsTyped
<1>2. Named(d) \in Seq(Delegators) /\ Named(t.delegator) \in Seq(Delegators)
  BY <1>1, EmptySeq DEF Named
<1>3. t.chain \o Named(t.delegator) \in Seq(Delegators)
  BY <1>1, <1>2, ConcatProperties
<1> QED
  BY <1>2, <1>3, ConcatProperties DEF ChainOf

LEMMA GrantAdds ==
  ASSUME Shape, NEW tool \in Tools, NEW ask \in Asks, NEW lineage \in Lineages,
         Grant(tool, ask, lineage)
  PROVE  /\ Granted(tool, ask, lineage) /\ Shape' /\ Len(tokens) \in Nat
         /\ \A j \in 1..Len(tokens') : j \in Minted \/ j = Len(tokens) + 1
<1> DEFINE c == [tool |-> tool, constraints |-> ask.constraints, iat |-> now,
                 exp |-> now + ask.life, delegator |-> ask.delegator,
                 parent |-> lineage.parent, depth |-> lineage.depth,
                 chain |-> lineage.chain]
<1>1. Mint(c, {}, TRUE) /\ ask.life <= MaxLife /\ now \in Nat
  BY DEF Grant, LifeOK, Shape
<1>2. now + ask.life \in now..(now + MaxLife) /\ now + ask.life \in Nat
  BY <1>1, AsksTyped, DelegationAssumption
<1>3. tool \in Tool
  BY DelegationAssumption
<1>4. c \in Claims
  <2> HIDE DEF ConstraintSet, Tool
  <2> QED
    BY <1>1, <1>2, <1>3, AsksTyped, LineagesTyped DEF Claims
<1>5. c.iat = now /\ c.exp = now + ask.life
  OBVIOUS
<1>6. {} \in SUBSET Minted /\ TRUE \in BOOLEAN
  OBVIOUS
<1> HIDE DEF c
<1>7. /\ Added(c, {}, TRUE) /\ Shape' /\ Len(tokens) \in Nat
      /\ \A j \in 1..Len(tokens') : j \in Minted \/ j = Len(tokens) + 1
  BY <1>1, <1>2, <1>4, <1>5, <1>6, MintAdds
<1> QED
  BY <1>7 DEF Granted, c

LEMMA DelegateAdds ==
  ASSUME Shape, NEW j \in Minted, NEW ask \in Asks, Delegate(j, ask)
  PROVE  /\ Delegated(j, ask) /\ Shape' /\ Len(tokens) \in Nat
         /\ \A i \in 1..Len(tokens') : i \in Minted \/ i = Len(tokens) + 1
         /\ Valid(tokens[j]) /\ DepthOK(tokens[j]) /\ LifeOK(ask.life)
         /\ Within(tokens[j].constraints, ask.constraints)
<1> DEFINE p == tokens[j]
           c == [tool |-> p.tool, constraints |-> ask.constraints, iat |-> now,
                 exp |-> now + ask.life, delegator |-> ask.delegator,
                 parent |-> j, depth |-> Depth(p) + 1,
                 chain |-> ChainOf(p, ask.delegator)]
           from == ancestors[j] \cup {j}
           narrowing == strict[j] /\ Restates(p.constraints, ask.constraints)
<1>1. /\ Mint(c, from, narrowing) /\ LifeOK(ask.life)
      /\ Valid(p) /\ DepthOK(p) /\ Within(p.constraints, ask.constraints)
  BY DEF Delegate
<1>2. p \in Claims /\ Len(tokens) \in Nat /\ now \in Nat
  <2> HIDE DEF Claims
  <2> QED
    BY DEF Shape, Minted
<1>3. now + ask.life \in now..(now + MaxLife) /\ now + ask.life \in Nat
  BY <1>1, <1>2, AsksTyped, DelegationAssumption DEF LifeOK
<1>4. ChainOf(p, ask.delegator) \in Seq(Delegators)
  BY <1>2, AsksTyped, ChainTyped
<1>5. Depth(p) + 1 \in Nat /\ j \in Nat /\ p.tool \in Tool
  BY <1>2, ClaimsTyped DEF Minted
<1>6. c \in Claims
  <2> HIDE DEF p, ConstraintSet, Tool
  <2> QED
    BY <1>2, <1>3, <1>4, <1>5, AsksTyped DEF Claims
<1>7. c.iat = now /\ c.exp = now + ask.life /\ ParentLives(c.parent)
  BY <1>1 DEF ParentLives, Valid
<1>8. from \in SUBSET Minted
  <2>1. ancestors[j] \subseteq 1..(j - 1)
    BY DEF Shape
  <2> QED
    BY <1>2, <2>1 DEF Minted
<1>9. narrowing \in BOOLEAN
  OBVIOUS
<1> HIDE DEF c, from, narrowing
<1>10. /\ Added(c, from, narrowing) /\ Shape'
       /\ \A i \in 1..Len(tokens') : i \in Minted \/ i = Len(tokens) + 1
  BY <1>1, <1>3, <1>6, <1>7, <1>8, <1>9, MintAdds
<1> QED
  BY <1>1, <1>2, <1>10 DEF Delegated, c, from, narrowing

LEMMA TickAdds == Shape /\ (Tick \/ UNCHANGED vars) => NothingAdded /\ Shape'
<1> SUFFICES ASSUME Shape, Tick \/ UNCHANGED vars PROVE NothingAdded /\ Shape'
  OBVIOUS
<1>1. NothingAdded /\ now' \in {now, now + 1} /\ now \in Nat
  BY DEF Tick, vars, NothingAdded, Shape
<1>2. \A j \in Minted : tokens[j].iat \in Nat
  <2>1. \A j \in Minted : tokens[j] \in Claims
    <3> HIDE DEF Claims
    <3> QED
      BY DEF Shape, Minted
  <2> QED
    BY <2>1, ClaimsTyped
<1>3. now' \in Nat /\ \A j \in Minted : tokens[j].iat <= now => tokens[j].iat <= now'
  BY <1>1, <1>2
<1> QED
  BY <1>1, <1>3 DEF Shape, Minted, NothingAdded, ParentLives

LEMMA ShapeInit == Init => Shape
<1> SUFFICES ASSUME Init PROVE Shape
  OBVIOUS
<1>1. /\ <<>> \in Seq(Claims) /\ <<>> \in Seq(SUBSET Nat) /\ <<>> \in Seq(BOOLEAN)
      /\ Len(<<>>) = 0
  <2> HIDE DEF Claims
  <2> QED
    BY EmptySeq
<1> QED
  BY <1>1 DEF Init, Shape, Minted

LEMMA ShapeNext == Shape /\ [Next]_vars => Shape'
  BY GrantAdds, DelegateAdds, TickAdds DEF Next

LEMMA ShapeTypeOK == Shape => TypeOK
<1> SUFFICES ASSUME Shape PROVE TypeOK
  OBVIOUS
<1>1. Len(tokens) \in Nat
  BY LenProperties DEF Shape
<1>2. ancestors \in [1..Len(tokens) -> SUBSET Nat] /\ strict \in [1..Len(tokens) -> BOOLEAN]
  BY LenProperties DEF Shape
<1>3. \A j \in Minted : ancestors[j] \subseteq Minted
  BY <1>1 DEF Shape, Minted
<1>4. ancestors \in [Minted -> SUBSET Minted]
  BY <1>2, <1>3 DEF Minted
<1> QED
  BY <1>2, <1>4 DEF Shape, TypeOK, Minted, ParentLives

\* Tokens keep their types, and never expire before they are issued.
THEOREM DelegationTypeOK == Spec => []TypeOK
  BY ShapeInit, ShapeNext, ShapeTypeOK, PTL DEF Spec

-----------------------------------------------------------------------------
(* Authority along a chain *)

\* Old tokens, and what the new one is, after a delegation.
LEMMA DelegatedFacts ==
  ASSUME Shape, NEW j \in Minted, NEW ask \in Asks, Delegate(j, ask)
  PROVE  LET n == Len(tokens) + 1 IN
         /\ \A i \in Minted' : i \in Minted \/ i = n
         /\ \A i \in Minted : /\ tokens'[i] = tokens[i] /\ ancestors'[i] = ancestors[i]
                              /\ strict'[i] = strict[i]
         /\ tokens'[n].tool = tokens[j].tool
         /\ tokens'[n].constraints = ask.constraints
         /\ tokens'[n].iat = now /\ tokens'[n].exp = now + ask.life
         /\ tokens'[n].delegator = ask.delegator
         /\ Depth(tokens'[n]) = Depth(tokens[j]) + 1
         /\ tokens'[n].chain = ChainOf(tokens[j], ask.delegator)
         /\ ancestors'[n] = ancestors[j] \cup {j}
         /\ strict'[n] = (strict[j] /\ Restates(tokens[j].constraints, ask.constraints))
         /\ n \notin Minted /\ n \in Minted'
<1> DEFINE n == Len(tokens) + 1
<1>1. /\ Delegated(j, ask) /\ Len(tokens) \in Nat
      /\ \A i \in 1..Len(tokens') : i \in Minted \/ i = n
  BY DelegateAdds
<1>2. tokens[j] \in Claims
  <2> HIDE DEF Claims
  <2> QED
    BY <1>1 DEF Shape, Minted
<1>3. Depth(tokens[j]) + 1 \in Nat
  BY <1>2, ClaimsTyped
<1>4. Depth(tokens[j]) + 1 # None
  BY <1>3, NoneAssumption
<1>5. /\ \A i \in Minted : /\ tokens'[i] = tokens[i] /\ ancestors'[i] = ancestors[i]
                           /\ strict'[i] = strict[i]
      /\ tokens'[n] = [tool |-> tokens[j].tool, constraints |-> ask.constraints, iat |-> now,
                       exp |-> now + ask.life, delegator |-> ask.delegator,
                       parent |-> j, depth |-> Depth(tokens[j]) + 1,
                       chain |-> ChainOf(tokens[j], ask.delegator)]
      /\ ancestors'[n] = ancestors[j] \cup {j}
      /\ strict'[n] = (strict[j] /\ Restates(tokens[j].constraints, ask.constraints))
      /\ Len(tokens') = n
  BY <1>1 DEF Delegated, Added
<1>6. tokens'[n].depth = Depth(tokens[j]) + 1
  BY <1>5
<1>7. Depth(tokens'[n]) = Depth(tokens[j]) + 1
  BY <1>4, <1>6 DEF Depth
<1>8. n \notin Minted /\ n \in Minted'
  BY <1>1, <1>5 DEF Minted
<1> QED
  BY <1>1, <1>5, <1>7, <1>8 DEF Minted

\* The same after a grant.
LEMMA GrantedFacts ==
  ASSUME Shape, NEW tool \in Tools, NEW ask \in Asks, NEW lineage \in Lineages,
         Grant(tool, ask, lineage)
  PROVE  LET n == Len(tokens) + 1 IN
         /\ \A i \in Minted' : i \in Minted \/ i = n
         /\ \A i \in Minted : /\ tokens'[i] = tokens[i] /\ ancestors'[i] = ancestors[i]
                              /\ strict'[i] = strict[i]
         /\ ancestors'[n] = {} /\ Depth(tokens'[n]) \in Nat
         /\ n \notin Minted /\ n \in Minted'
<1> DEFINE n == Len(tokens) + 1
<1>1. /\ Granted(tool, ask, lineage) /\ Len(tokens) \in Nat
      /\ \A i \in 1..Len(tokens') : i \in Minted \/ i = n
  BY GrantAdds
<1>2. /\ \A i \in Minted : /\ tokens'[i] = tokens[i] /\ ancestors'[i] = ancestors[i]
                           /\ strict'[i] = strict[i]
      /\ tokens'[n].depth = lineage.depth /\ ancestors'[n] = {} /\ Len(tokens') = n
  BY <1>1 DEF Granted, Added
<1>3. n \notin Minted /\ n \in Minted'
  BY <1>1, <1>2 DEF Minted
<1>4. Depth(tokens'[n]) \in Nat
  BY <1>2, LineagesTyped DEF Depth
<1> QED
  BY <1>1, <1>2, <1>3, <1>4 DEF Minted

\* Every ancestor of a token is a token.
LEMMA AncestorsMinted ==
  ASSUME Shape, NEW j \in Minted
  PROVE  ancestors[j] \subseteq Minted /\ \A a \in ancestors[j] : a < j
<1>1. Len(tokens) \in Nat
  BY LenProperties DEF Shape
<1> QED
  BY <1>1 DEF Shape, Minted

LEMMA TokensTyped ==
  ASSUME Shape, NEW j \in Minted
  PROVE  tokens[j] \in Claims /\ tokens[j].tool \in Tool
         /\ tokens[j].constraints \in ConstraintSet
<1>1. tokens[j] \in Claims
  <2> HIDE DEF Claims
  <2> QED
    BY DEF Shape, Minted
<1> QED
  BY <1>1, ClaimsTyped

LEMMA WidensNext == Shape /\ NeverWidens /\ [Next]_vars => NeverWidens'
<1> SUFFICES ASSUME Shape, NeverWidens, [Next]_vars PROVE NeverWidens'
  OBVIOUS
<1>1. ASSUME NEW tool \in Tools, NEW ask \in Asks, NEW lineage \in Lineages,
             Grant(tool, ask, lineage)
      PROVE  NeverWidens'
  <2> SUFFICES ASSUME NEW i \in Minted', strict'[i], NEW a \in ancestors'[i],
                      NEW x \in Contexts, Permits(i, x)'
               PROVE  Permits(a, x)'
    BY DEF NeverWidens
  <2>1. i \in Minted /\ ancestors'[i] = ancestors[i] /\ strict[i] /\ a \in Minted
    BY <1>1, GrantedFacts, AncestorsMinted
  <2>2. tokens'[i] = tokens[i] /\ tokens'[a] = tokens[a]
    BY <1>1, <2>1, GrantedFacts
  <2> QED
    BY <2>1, <2>2 DEF NeverWidens, Permits
<1>2. ASSUME NEW j \in Minted, NEW ask \in Asks, Delegate(j, ask) PROVE NeverWidens'
  <2> SUFFICES ASSUME NEW i \in Minted', strict'[i], NEW a \in ancestors'[i],
                      NEW x \in Contexts, Permits(i, x)'
               PROVE  Permits(a, x)'
    BY DEF NeverWidens
  <2> DEFINE n == Len(tokens) + 1
  <2>1. CASE i \in Minted
    <3>1. ancestors'[i] = ancestors[i] /\ strict[i] /\ a \in Minted
      BY <1>2, <2>1, DelegatedFacts, AncestorsMinted
    <3>2. tokens'[i] = tokens[i] /\ tokens'[a] = tokens[a]
      BY <1>2, <2>1, <3>1, DelegatedFacts
    <3> QED
      BY <2>1, <3>1, <3>2 DEF NeverWidens, Permits
  <2>2. CASE i = n
    <3>1. /\ tokens'[n].tool = tokens[j].tool /\ tokens'[n].constraints = ask.constraints
          /\ ancestors'[n] = ancestors[j] \cup {j}
          /\ strict[j] /\ Restates(tokens[j].constraints, ask.constraints)
      BY <1>2, <2>2, DelegatedFacts
    <3>2. Within(tokens[j].constraints, ask.constraints)
      BY <1>2, DelegateAdds
    <3>3. tokens[j].tool \in Tool /\ tokens[j].constraints \in ConstraintSet
          /\ ask.constraints \in ConstraintSet /\ x \in Context
      BY TokensTyped, AsksTyped, DelegationAssumption
    <3>4. Allows(tokens[j].tool, ask.constraints, x)
      BY <2>2, <3>1 DEF Permits
    <3>5. Permits(j, x)
      BY <3>1, <3>2, <3>3, <3>4, Attenuation DEF Permits
    <3>6. Permits(a, x) /\ a \in Minted
      BY <2>2, <3>1, <3>5, AncestorsMinted DEF NeverWidens
    <3>7. tokens'[a] = tokens[a]
      BY <1>2, <3>6, DelegatedFacts
    <3> QED
      BY <3>6, <3>7 DEF Permits
  <2> QED
    BY <1>2, <2>1, <2>2, DelegatedFacts
<1>3. CASE Tick \/ UNCHANGED vars
  BY <1>3, TickAdds DEF NothingAdded, NeverWidens, Permits, Minted
<1> QED
  BY <1>1, <1>2, <1>3 DEF Next

\* A token minted by delegations that all restate what they inherit allows
\* nothing an ancestor would not (assertConstraintSubset).
THEOREM DelegationNeverWidens == Spec => []NeverWidens
<1>1. Init => NeverWidens
  <2> SUFFICES ASSUME Init PROVE NeverWidens
    OBVIOUS
  <2>1. Minted = {}
    BY EmptySeq DEF Init, Minted
  <2> QED
    BY <2>1 DEF NeverWidens
<1> QED
  BY <1>1, ShapeInit, ShapeNext, WidensNext, PTL DEF Spec

\* A requirement of approval passes from a token to all that descends from it.
ApprovalPasses ==
  \A j \in Minted : \A a \in ancestors[j] :
    tokens[a].constraints.approvalRequired => tokens[j].constraints.approvalRequired

LEMMA PassesNext == Shape /\ ApprovalPasses /\ [Next]_vars => ApprovalPasses'
<1> SUFFICES ASSUME Shape, ApprovalPasses, [Next]_vars PROVE ApprovalPasses'
  OBVIOUS
<1>1. ASSUME NEW tool \in Tools, NEW ask \in Asks, NEW lineage \in Lineages,
             Grant(tool, ask, lineage)
      PROVE  ApprovalPasses'
  <2> SUFFICES ASSUME NEW i \in Minted', NEW a \in ancestors'[i],
                      tokens'[a].constraints.approvalRequired
               PROVE  tokens'[i].constraints.approvalRequired
    BY DEF ApprovalPasses
  <2>1. i \in Minted /\ ancestors'[i] = ancestors[i] /\ a \in Minted
    BY <1>1, GrantedFacts, AncestorsMinted
  <2>2. tokens'[i] = tokens[i] /\ tokens'[a] = tokens[a]
    BY <1>1, <2>1, GrantedFacts
  <2> QED
    BY <2>1, <2>2 DEF ApprovalPasses
<1>2. ASSUME NEW j \in Minted, NEW ask \in Asks, Delegate(j, ask) PROVE ApprovalPasses'
  <2> SUFFICES ASSUME NEW i \in Minted', NEW a \in ancestors'[i],
                      tokens'[a].constraints.approvalRequired
               PROVE  tokens'[i].constraints.approvalRequired
    BY DEF ApprovalPasses
  <2> DEFINE n == Len(tokens) + 1
  <2>1. CASE i \in Minted
    <3>1. ancestors'[i] = ancestors[i] /\ a \in Minted
      BY <1>2, <2>1, DelegatedFacts, AncestorsMinted
    <3>2. tokens'[i] = tokens[i] /\ tokens'[a] = tokens[a]
      BY <1>2, <2>1, <3>1, DelegatedFacts
    <3> QED
      BY <2>1, <3>1, <3>2 DEF ApprovalPasses
  <2>2. CASE i = n
    <3>1. tokens'[n].constraints = ask.constraints /\ ancestors'[n] = ancestors[j] \cup {j}
      BY <1>2, DelegatedFacts
    <3>2. a \in Minted /\ (a \in ancestors[j] \/ a = j)
      BY <2>2, <3>1, AncestorsMinted
    <3>3. tokens'[a] = tokens[a]
      BY <1>2, <3>2, DelegatedFacts
    <3>4. tokens[j].constraints.approvalRequired
      BY <3>2, <3>3 DEF ApprovalPasses
    <3>5. ask.constraints.approvalRequired
      BY <1>2, <3>4, DelegateAdds DEF Within, ApprovalWithin
    <3> QED
      BY <2>2, <3>1, <3>5
  <2> QED
    BY <1>2, <2>1, <2>2, DelegatedFacts
<1>3. CASE Tick \/ UNCHANGED vars
  BY <1>3, TickAdds DEF NothingAdded, ApprovalPasses, Minted
<1> QED
  BY <1>1, <1>2, <1>3 DEF Next

LEMMA NoneMinted == Init => Minted = {}
<1> SUFFICES ASSUME Init PROVE Minted = {}
  OBVIOUS
<1> QED
  BY EmptySeq DEF Init, Minted

\* Nothing delegated from a token that requires an approval allows a call
\* without one, whatever else a delegation left out.
THEOREM DelegationApprovalInherited == Spec => []ApprovalInherited
<1>1. Init => ApprovalPasses
  BY NoneMinted DEF ApprovalPasses
<1>2. ApprovalPasses => ApprovalInherited
  BY ApprovalNeeded DEF ApprovalPasses, ApprovalInherited, Permits
<1> QED
  BY <1>1, <1>2, ShapeInit, ShapeNext, PassesNext, PTL DEF Spec

-----------------------------------------------------------------------------
(* Depth and lifetime *)

LEMMA AncestorsFinite ==
  ASSUME Shape, NEW j \in Minted
  PROVE  IsFiniteSet(ancestors[j])
<1>1. Len(tokens) \in Nat
  BY LenProperties DEF Shape
<1>2. IsFiniteSet(1..Len(tokens))
  BY <1>1, FS_Interval
<1>3. ancestors[j] \subseteq 1..Len(tokens)
  BY AncestorsMinted DEF Minted
<1> QED
  BY <1>2, <1>3, FS_Subset

LEMMA DepthNext == Shape /\ DepthCountsDelegations /\ [Next]_vars => DepthCountsDelegations'
<1> SUFFICES ASSUME Shape, DepthCountsDelegations, [Next]_vars PROVE DepthCountsDelegations'
  OBVIOUS
<1> DEFINE n == Len(tokens) + 1
           Below(ts, as, a, i) ==
             /\ Depth(ts[i]) = Depth(ts[a]) + Cardinality(as[i] \ as[a])
             /\ Depth(ts[i]) <= MaxDepth
             /\ ts[a].tool = ts[i].tool
           Counted(ts, as, i) ==
             /\ Cardinality(as[i]) <= Depth(ts[i])
             /\ \A a \in as[i] : Below(ts, as, a, i)
<1>1. ASSUME NEW i \in Minted,
             \A a \in Minted : tokens'[a] = tokens[a] /\ ancestors'[a] = ancestors[a]
      PROVE  Counted(tokens', ancestors', i)
  <2>1. Counted(tokens, ancestors, i) /\ ancestors[i] \subseteq Minted
    BY AncestorsMinted DEF DepthCountsDelegations
  <2>2. tokens'[i] = tokens[i] /\ ancestors'[i] = ancestors[i]
    BY <1>1
  <2>3. ASSUME NEW a \in ancestors'[i] PROVE Below(tokens', ancestors', a, i)
    <3>1. a \in ancestors[i] /\ tokens'[a] = tokens[a] /\ ancestors'[a] = ancestors[a]
      BY <1>1, <2>1, <2>2
    <3> QED
      BY <2>1, <2>2, <3>1
  <2>4. Cardinality(ancestors'[i]) <= Depth(tokens'[i])
    BY <2>1, <2>2
  <2> QED
    BY <2>3, <2>4
<1>2. ASSUME NEW tool \in Tools, NEW ask \in Asks, NEW lineage \in Lineages,
             Grant(tool, ask, lineage)
      PROVE  DepthCountsDelegations'
  <2>1. ancestors'[n] = {} /\ Depth(tokens'[n]) \in Nat
    BY <1>2, GrantedFacts
  <2>2. Counted(tokens', ancestors', n)
    BY <2>1, FS_EmptySet
  <2>3. \A i \in Minted : Counted(tokens', ancestors', i)
    BY <1>1, <1>2, GrantedFacts
  <2> QED
    BY <1>2, <2>2, <2>3, GrantedFacts DEF DepthCountsDelegations
<1>3. ASSUME NEW j \in Minted, NEW ask \in Asks, Delegate(j, ask)
      PROVE  DepthCountsDelegations'
  <2>1. /\ ancestors'[n] = ancestors[j] \cup {j} /\ tokens'[n].tool = tokens[j].tool
        /\ Depth(tokens'[n]) = Depth(tokens[j]) + 1
        /\ \A a \in Minted : tokens'[a] = tokens[a] /\ ancestors'[a] = ancestors[a]
    BY <1>3, DelegatedFacts
  <2>2. Counted(tokens, ancestors, j) /\ ancestors[j] \subseteq Minted
    BY AncestorsMinted DEF DepthCountsDelegations
  <2>3. IsFiniteSet(ancestors[j]) /\ j \notin ancestors[j]
    BY AncestorsFinite, AncestorsMinted DEF Minted
  <2>4. \A a \in Minted : Depth(tokens[a]) \in Nat
    BY TokensTyped, ClaimsTyped
  <2>5. Depth(tokens'[n]) <= MaxDepth
    BY <1>3, <2>1, DelegateAdds DEF DepthOK
  <2>6. Cardinality(ancestors'[n]) <= Depth(tokens'[n])
    <3>1. Cardinality(ancestors[j] \cup {j}) = Cardinality(ancestors[j]) + 1
      BY <2>3, FS_AddElement
    <3>2. Cardinality(ancestors[j]) \in Nat
      BY <2>3, FS_CardinalityType
    <3> QED
      BY <2>1, <2>2, <2>4, <3>1, <3>2
  <2>7. ASSUME NEW a \in ancestors'[n] PROVE Below(tokens', ancestors', a, n)
    <3>1. a \in Minted /\ (a \in ancestors[j] \/ a = j)
      BY <2>1, <2>2
    <3>2. tokens'[a] = tokens[a] /\ ancestors'[a] = ancestors[a] /\ j \notin ancestors[a]
      <4>1. j \notin ancestors[a]
        BY <3>1, AncestorsMinted DEF Minted
      <4> QED
        BY <2>1, <3>1, <4>1
    <3>3. ancestors'[n] \ ancestors'[a] = (ancestors[j] \ ancestors[a]) \cup {j}
      BY <2>1, <3>2
    <3>4. IsFiniteSet(ancestors[j] \ ancestors[a])
      BY <2>3, FS_Subset
    <3>5. /\ Cardinality(ancestors'[n] \ ancestors'[a])
               = Cardinality(ancestors[j] \ ancestors[a]) + 1
          /\ Cardinality(ancestors[j] \ ancestors[a]) \in Nat
      BY <2>3, <3>3, <3>4, FS_AddElement, FS_CardinalityType
    <3>6. /\ Depth(tokens[j]) = Depth(tokens[a]) + Cardinality(ancestors[j] \ ancestors[a])
          /\ tokens[a].tool = tokens[j].tool
      <4>1. CASE a \in ancestors[j]
        BY <2>2, <4>1
      <4>2. CASE a = j
        <5>1. Cardinality(ancestors[j] \ ancestors[j]) = 0
          BY FS_EmptySet
        <5> QED
          BY <2>4, <4>2, <5>1
      <4> QED
        BY <3>1, <4>1, <4>2
    <3> QED
      BY <2>1, <2>4, <2>5, <3>1, <3>2, <3>5, <3>6
  <2>8. Counted(tokens', ancestors', n)
    BY <2>6, <2>7
  <2>9. \A i \in Minted : Counted(tokens', ancestors', i)
    BY <1>1, <2>1
  <2> QED
    BY <1>3, <2>8, <2>9, DelegatedFacts DEF DepthCountsDelegations
<1>4. CASE Tick \/ UNCHANGED vars
  BY <1>4, TickAdds DEF NothingAdded, DepthCountsDelegations, Minted
<1> QED
  BY <1>2, <1>3, <1>4 DEF Next

\* From whatever depth its grant stated, each delegation makes a token one level
\* deeper, no delegated token is deeper than the limit, so none has more
\* ancestors than that, and all of them have its tool (maxDelegationDepth in
\* delegateCapability).
THEOREM DelegationDepthCounts == Spec => []DepthCountsDelegations
<1>1. Init => DepthCountsDelegations
  BY NoneMinted DEF DepthCountsDelegations
<1> QED
  BY <1>1, ShapeInit, ShapeNext, DepthNext, PTL DEF Spec

LEMMA LifetimeArithmetic ==
  ASSUME NEW exp \in Nat, NEW iat \in Nat, NEW l \in Int, NEW later \in Nat,
         exp <= iat + (l + 1) * MaxLife + l * Tolerance,
         later < exp + MaxLife + Tolerance
  PROVE  later <= iat + (l + 1 + 1) * MaxLife + (l + 1) * Tolerance
<1>1. MaxLife \in Int /\ Tolerance \in Int
  BY DelegationAssumption
<1>2. /\ (l + 1 + 1) * MaxLife = (l + 1) * MaxLife + MaxLife
      /\ (l + 1) * Tolerance = l * Tolerance + Tolerance
  BY <1>1
<1>3. (l + 1) * MaxLife \in Int /\ l * Tolerance \in Int
  BY <1>1
<1> QED
  BY <1>1, <1>2, <1>3

LEMMA LifetimeNext == Shape /\ LifetimeBound /\ [Next]_vars => LifetimeBound'
<1> SUFFICES ASSUME Shape, LifetimeBound, [Next]_vars PROVE LifetimeBound'
  OBVIOUS
<1> DEFINE n == Len(tokens) + 1
           Levels(ts, a, i) == Depth(ts[i]) - Depth(ts[a])
           Bounded(ts, a, i) ==
             ts[i].exp <= ts[a].iat + (Levels(ts, a, i) + 1) * MaxLife
                            + Levels(ts, a, i) * Tolerance
<1>0. LifetimeBound <=> \A i \in Minted : \A a \in ancestors[i] : Bounded(tokens, a, i)
  BY DEF LifetimeBound
<1>1. ASSUME NEW i \in Minted, tokens'[i] = tokens[i], NEW a \in ancestors[i],
             tokens'[a] = tokens[a]
      PROVE  Bounded(tokens', a, i)
  BY <1>0, <1>1
<1>2. ASSUME NEW tool \in Tools, NEW ask \in Asks, NEW lineage \in Lineages,
             Grant(tool, ask, lineage)
      PROVE  LifetimeBound'
  <2> SUFFICES ASSUME NEW i \in Minted', NEW a \in ancestors'[i]
               PROVE  Bounded(tokens', a, i)
    BY DEF LifetimeBound
  <2>1. i \in Minted /\ ancestors'[i] = ancestors[i] /\ a \in Minted
    BY <1>2, GrantedFacts, AncestorsMinted
  <2>2. tokens'[i] = tokens[i] /\ tokens'[a] = tokens[a]
    BY <1>2, <2>1, GrantedFacts
  <2> QED
    BY <1>1, <2>1, <2>2
<1>3. ASSUME NEW j \in Minted, NEW ask \in Asks, Delegate(j, ask) PROVE LifetimeBound'
  <2> SUFFICES ASSUME NEW i \in Minted', NEW a \in ancestors'[i]
               PROVE  Bounded(tokens', a, i)
    BY DEF LifetimeBound
  <2>1. CASE i \in Minted
    <3>1. ancestors'[i] = ancestors[i] /\ a \in Minted
      BY <1>3, <2>1, DelegatedFacts, AncestorsMinted
    <3>2. tokens'[i] = tokens[i] /\ tokens'[a] = tokens[a]
      BY <1>3, <2>1, <3>1, DelegatedFacts
    <3> QED
      BY <1>1, <2>1, <3>1, <3>2
  <2>2. CASE i = n
    <3>1. /\ ancestors'[n] = ancestors[j] \cup {j} /\ tokens'[n].exp = now + ask.life
          /\ Depth(tokens'[n]) = Depth(tokens[j]) + 1
      BY <1>3, DelegatedFacts
    <3>2. a \in Minted /\ (a \in ancestors[j] \/ a = j)
      BY <2>2, <3>1, AncestorsMinted
    <3>3. tokens'[a] = tokens[a]
      BY <1>3, <3>2, DelegatedFacts
    <3>4. /\ tokens[j].exp \in Nat /\ tokens[a].iat \in Nat
          /\ Depth(tokens[j]) \in Nat /\ Depth(tokens[a]) \in Nat
      BY <3>2, TokensTyped, ClaimsTyped
    <3>5. now < tokens[j].exp + Tolerance /\ ask.life <= MaxLife
      BY <1>3, DelegateAdds DEF Valid, LifeOK
    <3>6. now + ask.life \in Nat /\ now + ask.life < tokens[j].exp + MaxLife + Tolerance
      <4>1. now \in Nat
        BY DEF Shape
      <4>2. ask.life \in Nat /\ MaxLife \in Nat /\ Tolerance \in Nat
        BY AsksTyped, DelegationAssumption
      <4> QED
        BY <3>4, <3>5, <4>1, <4>2
    <3> DEFINE l == Depth(tokens[j]) - Depth(tokens[a])
    <3>7. l \in Int /\ Levels(tokens', a, n) = l + 1
      BY <3>1, <3>3, <3>4
    <3>8. tokens[j].exp <= tokens[a].iat + (l + 1) * MaxLife + l * Tolerance
      <4>1. CASE a \in ancestors[j]
        BY <1>0, <4>1
      <4>2. CASE a = j
        <5>1. l = 0 /\ tokens[j].exp <= tokens[j].iat + MaxLife
          BY <3>4, <4>2 DEF Shape
        <5>2. (0 + 1) * MaxLife = MaxLife /\ 0 * Tolerance = 0
          BY DelegationAssumption
        <5> QED
          BY <3>4, <4>2, <5>1, <5>2, DelegationAssumption
      <4> QED
        BY <3>2, <4>1, <4>2
    <3> HIDE DEF l
    <3>9. now + ask.life <= tokens[a].iat + (l + 1 + 1) * MaxLife + (l + 1) * Tolerance
      BY <3>4, <3>6, <3>7, <3>8, LifetimeArithmetic
    <3> QED
      BY <2>2, <3>1, <3>3, <3>7, <3>9
  <2> QED
    BY <1>3, <2>1, <2>2, DelegatedFacts
<1>4. CASE Tick \/ UNCHANGED vars
  BY <1>4, TickAdds DEF NothingAdded, LifetimeBound, Minted
<1> QED
  BY <1>2, <1>3, <1>4 DEF Next

\* What descends from a grant expires a bounded time after it, although a
\* child may outlive its parent.
THEOREM DelegationLifetimeBound == Spec => []LifetimeBound
<1>1. Init => LifetimeBound
  BY NoneMinted DEF LifetimeBound
<1> QED
  BY <1>1, ShapeInit, ShapeNext, LifetimeNext, PTL DEF Spec

-----------------------------------------------------------------------------
(* The chain of delegators *)

Mentions(chain, d) == \E i \in 1..Len(chain) : chain[i] = d

LEMMA MentionsConcat ==
  ASSUME NEW s \in Seq(Delegators), NEW t \in Seq(Delegators), NEW d
  PROVE  Mentions(s, d) \/ Mentions(t, d) => Mentions(s \o t, d)
<1>1. /\ Len(s) \in Nat /\ Len(t) \in Nat /\ Len(s \o t) = Len(s) + Len(t)
      /\ \A i \in 1..(Len(s) + Len(t)) :
           (s \o t)[i] = IF i <= Len(s) THEN s[i] ELSE t[i - Len(s)]
  BY ConcatProperties, LenProperties
<1>2. ASSUME NEW i \in 1..Len(s) PROVE i \in 1..Len(s \o t) /\ (s \o t)[i] = s[i]
  BY <1>1
<1>3. ASSUME NEW i \in 1..Len(t)
      PROVE  Len(s) + i \in 1..Len(s \o t) /\ (s \o t)[Len(s) + i] = t[i]
  <2>1. Len(s) + i \in 1..(Len(s) + Len(t)) /\ ~(Len(s) + i <= Len(s))
        /\ Len(s) + i - Len(s) = i
    BY <1>1
  <2> QED
    BY <1>1, <2>1
<1> QED
  BY <1>2, <1>3 DEF Mentions

LEMMA MentionsNamed ==
  ASSUME NEW d \in Delegators
  PROVE  Mentions(Named(d), d)
<1>1. Named(d) = <<d>>
  BY DelegationAssumption DEF Named
<1> QED
  BY <1>1 DEF Mentions

LEMMA ChainNext == Shape /\ ChainComplete /\ [Next]_vars => ChainComplete'
<1> SUFFICES ASSUME Shape, ChainComplete, [Next]_vars PROVE ChainComplete'
  OBVIOUS
<1> DEFINE n == Len(tokens) + 1
<1>1. ASSUME NEW i \in Minted, tokens'[i] = tokens[i], ancestors[i] # {},
             NEW a \in ancestors[i] \cup {i}, tokens'[a] = tokens[a],
             tokens'[a].delegator # None
      PROVE  Mentions(tokens'[i].chain, tokens'[a].delegator)
  BY <1>1 DEF ChainComplete, Mentions
<1>2. ASSUME NEW tool \in Tools, NEW ask \in Asks, NEW lineage \in Lineages,
             Grant(tool, ask, lineage)
      PROVE  ChainComplete'
  <2> SUFFICES ASSUME NEW i \in Minted', ancestors'[i] # {},
                      NEW a \in ancestors'[i] \cup {i}, tokens'[a].delegator # None
               PROVE  Mentions(tokens'[i].chain, tokens'[a].delegator)
    BY DEF ChainComplete, Mentions
  <2>1. i \in Minted /\ ancestors'[i] = ancestors[i] /\ a \in Minted
    BY <1>2, GrantedFacts, AncestorsMinted
  <2>2. tokens'[i] = tokens[i] /\ tokens'[a] = tokens[a]
    BY <1>2, <2>1, GrantedFacts
  <2> QED
    BY <1>1, <2>1, <2>2
<1>3. ASSUME NEW j \in Minted, NEW ask \in Asks, Delegate(j, ask) PROVE ChainComplete'
  <2> SUFFICES ASSUME NEW i \in Minted', ancestors'[i] # {},
                      NEW a \in ancestors'[i] \cup {i}, tokens'[a].delegator # None
               PROVE  Mentions(tokens'[i].chain, tokens'[a].delegator)
    BY DEF ChainComplete, Mentions
  <2>1. CASE i \in Minted
    <3>1. ancestors'[i] = ancestors[i] /\ a \in Minted
      BY <1>3, <2>1, DelegatedFacts, AncestorsMinted
    <3>2. tokens'[i] = tokens[i] /\ tokens'[a] = tokens[a]
      BY <1>3, <2>1, <3>1, DelegatedFacts
    <3> QED
      BY <1>1, <2>1, <3>1, <3>2
  <2>2. CASE i = n
    <3> DEFINE p == tokens[j]
    <3>1. /\ ancestors'[n] = ancestors[j] \cup {j}
          /\ tokens'[n].chain = ChainOf(p, ask.delegator)
          /\ tokens'[n].delegator = ask.delegator
      BY <1>3, DelegatedFacts
    <3>2. /\ p.chain \in Seq(Delegators) /\ Named(p.delegator) \in Seq(Delegators)
          /\ Named(ask.delegator) \in Seq(Delegators)
          /\ p.chain \o Named(p.delegator) \in Seq(Delegators)
      BY TokensTyped, ClaimsTyped, AsksTyped, ChainTyped
    <3>3. \A d : \/ Mentions(p.chain, d) \/ Mentions(Named(p.delegator), d)
                 \/ Mentions(Named(ask.delegator), d)
                 => Mentions(ChainOf(p, ask.delegator), d)
      BY <3>2, MentionsConcat DEF ChainOf
    <3>4. CASE a = n
      <4>1. ask.delegator \in Delegators
        BY <3>1, <3>4, AsksTyped
      <4> QED
        BY <2>2, <3>1, <3>3, <3>4, <4>1, MentionsNamed
    <3>5. CASE a # n
      <4>1. a \in Minted /\ (a \in ancestors[j] \/ a = j)
        BY <2>2, <3>1, <3>5, AncestorsMinted
      <4>2. tokens'[a] = tokens[a]
        BY <1>3, <4>1, DelegatedFacts
      <4>3. CASE a \in ancestors[j]
        <5>1. Mentions(p.chain, tokens[a].delegator)
          BY <4>2, <4>3 DEF ChainComplete, Mentions
        <5> QED
          BY <2>2, <3>1, <3>3, <4>2, <5>1
      <4>4. CASE a = j
        <5>1. p.delegator \in Delegators
          BY <4>2, <4>4, TokensTyped, ClaimsTyped
        <5> QED
          BY <2>2, <3>1, <3>3, <4>2, <4>4, <5>1, MentionsNamed
      <4> QED
        BY <4>1, <4>3, <4>4
    <3> QED
      BY <3>4, <3>5
  <2> QED
    BY <1>3, <2>1, <2>2, DelegatedFacts
<1>4. CASE Tick \/ UNCHANGED vars
  BY <1>4, TickAdds DEF NothingAdded, ChainComplete, Minted
<1> QED
  BY <1>2, <1>3, <1>4 DEF Next

\* The delegator_chain of a delegated token names every delegator above it and
\* its own (delegatorChain in delegateCapability).
THEOREM DelegationChainComplete == Spec => []ChainComplete
<1>1. Init => ChainComplete
  BY NoneMinted DEF ChainComplete
<1> QED
  BY <1>1, ShapeInit, ShapeNext, ChainNext, PTL DEF Spec
=============================================================================
