------------------------------ MODULE Delegation ------------------------------
(***************************************************************************)
(* Capability tokens: grantCapability (grant.ts), delegateCapability       *)
(* (delegate.ts) and the validity of a token over time (validate.ts).      *)
(*                                                                         *)
(* A token is its claims; its jti is its place in the order of minting.    *)
(* Tokens are signed and kept by their holders, so nothing is removed.  The*)
(* claims about a token's lineage are what the caller of a grant states, if*)
(* anything; only a delegation takes them from the parent.                 *)
(***************************************************************************)
EXTENDS PolicyEngine, Sequences, FiniteSets

CONSTANTS
  Tools,       \* the tools tokens are asked for
  Delegators,  \* users and systems that grant authority
  Asks,        \* what tokens are asked for with: constraints, expiresIn as
               \* parseExpiresIn reads it ("0s" is 0), and delegator
  Lineages,    \* what grants state of their lineage: parentJti, 0 for a jti that
               \* is of none of the tokens here, delegationDepth, delegatorChain
  Contexts,    \* the calls their policies are asked about
  MaxLife,     \* MAX_EXPIRES_SEC
  Tolerance,   \* clockToleranceSec
  MaxDepth,    \* maxDelegationDepth, as far as the claims schema admits it
  MaxGrants,   \* bounds how many tokens are granted
  MaxTokens,   \* bounds how many are granted or delegated
  MaxTime      \* bounds the clock

ASSUME DelegationAssumption ==
  /\ Tools \subseteq Tool
  /\ None \notin Delegators
  /\ Asks \subseteq [constraints : ConstraintSet, life : Nat,
                     delegator : Delegators \cup {None}]
  /\ Lineages \subseteq [parent : Nat \cup {None}, depth : 0..16 \cup {None},
                         chain : Seq(Delegators)]
  /\ Contexts \subseteq Context
  /\ MaxLife \in Nat /\ Tolerance \in Nat /\ MaxDepth \in 0..16
  /\ MaxGrants \in Nat /\ MaxTokens \in Nat /\ MaxTime \in Nat

VARIABLES
  tokens,     \* the claims of every token, in the order of minting
  now,        \* the clock
  ancestors,  \* history: ancestors[j] are the tokens j descends from
  strict      \* history: strict[j] if every delegation on the way to j
              \* restated the constraints it inherited

vars == <<tokens, now, ancestors, strict>>

\* CapabilityTokenClaims; no delegator_chain is an empty one.
Claims ==
  [tool : Tool, constraints : ConstraintSet, iat : Nat, exp : Nat,
   delegator : Delegators \cup {None}, parent : Nat \cup {None},
   depth : Nat \cup {None}, chain : Seq(Delegators)]

Minted == 1..Len(tokens)

TypeOK ==
  /\ tokens \in Seq(Claims)
  /\ now \in Nat
  /\ ancestors \in [Minted -> SUBSET Minted]
  /\ strict \in [Minted -> BOOLEAN]
  /\ \A j \in Minted : tokens[j].iat <= tokens[j].exp /\ tokens[j].iat <= now
  /\ \A j \in Minted : ancestors[j] # {} =>
       LET p == tokens[j].parent IN p \in Minted /\ tokens[p].iat < tokens[p].exp

Init ==
  /\ tokens = <<>>
  /\ now = 0
  /\ ancestors = <<>>
  /\ strict = <<>>

-----------------------------------------------------------------------------

\* grantCapability throws if the lifetime is above 24 h.  (The mutant does not.)
LifeAny(life) == life \in Nat
LifeOK(life) == life <= MaxLife

Mint(claims, from, narrowing) ==
  /\ Len(tokens) < MaxTokens
  /\ tokens' = Append(tokens, claims)
  /\ ancestors' = Append(ancestors, from)
  /\ strict' = Append(strict, narrowing)
  /\ UNCHANGED now

\* The lineage is copied, whatever it says; but a jti is made up at random, so
\* none can be stated before its token is minted.
Grant(tool, ask, lineage) ==
  /\ LifeOK(ask.life)
  /\ lineage.parent \in Minted \cup {0, None}
  /\ Cardinality({j \in Minted : ancestors[j] = {}}) < MaxGrants
  /\ Mint([tool |-> tool, constraints |-> ask.constraints,
           iat |-> now, exp |-> now + ask.life, delegator |-> ask.delegator,
           parent |-> lineage.parent, depth |-> lineage.depth, chain |-> lineage.chain],
          {}, TRUE)

\* validateCapability: accepted until exp and for the tolerance after it; the
\* claims schema asks for a lifetime.  (The mutant does not.)
ValidUntil(t) == now < t.exp + Tolerance
Valid(t) == t.iat < t.exp /\ now < t.exp + Tolerance

Depth(t) == IF t.depth = None THEN 0 ELSE t.depth

\* (The mutant lets one level too many through.)
DepthBelow(t) == Depth(t) <= MaxDepth
DepthOK(t) == Depth(t) + 1 <= MaxDepth

Named(delegator) == IF delegator = None THEN <<>> ELSE <<delegator>>

\* The delegators a child is traced to.  (The mutant forgets the parent's own.)
ChainOfParent(t, delegator) == t.chain \o Named(delegator)
ChainOf(t, delegator) == t.chain \o Named(t.delegator) \o Named(delegator)

\* The child has its parent's tool.  Whether the parent was revoked is not
\* asked, nor how long it still lives.
Delegate(j, ask) ==
  LET parent == tokens[j]
  IN  /\ Valid(parent)
      /\ DepthOK(parent)
      /\ Within(parent.constraints, ask.constraints)
      /\ LifeOK(ask.life)
      /\ Mint([tool |-> parent.tool, constraints |-> ask.constraints,
               iat |-> now, exp |-> now + ask.life, delegator |-> ask.delegator,
               parent |-> j, depth |-> Depth(parent) + 1,
               chain |-> ChainOf(parent, ask.delegator)],
              ancestors[j] \cup {j},
              strict[j] /\ Restates(parent.constraints, ask.constraints))

Tick ==
  /\ now < MaxTime
  /\ now' = now + 1
  /\ UNCHANGED <<tokens, ancestors, strict>>

Next ==
  \/ \E tool \in Tools, ask \in Asks, lineage \in Lineages : Grant(tool, ask, lineage)
  \/ \E j \in Minted, ask \in Asks : Delegate(j, ask)
  \/ Tick

Spec == Init /\ [][Next]_vars

-----------------------------------------------------------------------------

Permits(j, x) == Allows(tokens[j].tool, tokens[j].constraints, x)

\* A token allows nothing that a token it descends from would not allow in the
\* same place, provided every delegation in between restated the constraints
\* it inherited (assertConstraintSubset, over chains of any length).
NeverWidens ==
  \A j \in Minted : strict[j] =>
    \A a \in ancestors[j], x \in Contexts : Permits(j, x) => Permits(a, x)

\* An approval that a token requires is required of everything delegated from
\* it, restated or not: without one, no descendant allows any call.
ApprovalInherited ==
  \A j \in Minted : \A a \in ancestors[j] \cup {j} :
    tokens[a].constraints.approvalRequired =>
      \A x \in Contexts : ~x.approvalGranted => ~Permits(j, x)

\* Whatever depth a grant stated, each delegation adds one to it: a token is as
\* much deeper than any it descends from as there are delegations in between,
\* at least as deep as it has ancestors, and within the limit if it has any; and
\* its tool is theirs (nextDepth and expectedTool in delegateCapability).
DepthCountsDelegations ==
  \A j \in Minted :
    /\ Cardinality(ancestors[j]) <= Depth(tokens[j])
    /\ \A a \in ancestors[j] :
         /\ Depth(tokens[j]) = Depth(tokens[a]) + Cardinality(ancestors[j] \ ancestors[a])
         /\ Depth(tokens[j]) <= MaxDepth
         /\ tokens[a].tool = tokens[j].tool

\* A child may outlive its parent, but not for ever: what descends from a grant
\* has expired MaxDepth + 1 lifetimes, and a tolerance for each delegation,
\* after it (expiresIn in grantCapability, clockTolerance in delegateCapability).
LifetimeBound ==
  \A j \in Minted : \A a \in ancestors[j] :
    LET levels == Depth(tokens[j]) - Depth(tokens[a])
    IN  tokens[j].exp <= tokens[a].iat + (levels + 1) * MaxLife + levels * Tolerance

\* The delegator_chain of a delegated token names every delegator it descends
\* from, its own included, beside what its grant stated (delegatorChain in
\* delegateCapability).
ChainComplete ==
  \A j \in Minted : ancestors[j] # {} =>
    \A a \in ancestors[j] \cup {j} :
      tokens[a].delegator # None =>
        \E i \in 1..Len(tokens[j].chain) : tokens[j].chain[i] = tokens[a].delegator

-----------------------------------------------------------------------------
(* What the documents say and the code does not do *)

\* Delegation only narrows: a child allows nothing its parent would not.
DelegationNarrows ==
  \A j \in Minted : \A a \in ancestors[j], x \in Contexts : Permits(j, x) => Permits(a, x)
=============================================================================
