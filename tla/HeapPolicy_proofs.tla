------------------------- MODULE HeapPolicy_proofs -------------------------
(***************************************************************************)
(* The policy keeps its promise for any heap, any contents and any set of  *)
(* valid signatures.                                                       *)
(***************************************************************************)
EXTENDS HeapPolicy, TLAPS

Typing ==
    /\ holder \in [Guarded -> {"app", "mon"}]
    /\ rights \in [Guarded -> SUBSET {"R", "W", "X"}]
    /\ content \in [Chunk -> Content]

PolicyInv == Typing /\ PolicySafe

(* A chunk that can be written is not executable, so its content is free;  *)
(* a chunk that becomes executable is signed in the same step.             *)
LEMMA PolicyStep ==
    ASSUME Guarded \subseteq Chunk
    PROVE  PolicyInv /\ [Next]_policyVars => PolicyInv'
<1> SUFFICES ASSUME PolicyInv, [Next]_policyVars PROVE PolicyInv'
  OBVIOUS
<1> USE DEF PolicyInv, Typing, PolicySafe
<1>1. ASSUME NEW c \in Guarded, NEW v \in Content, Write(c, v) PROVE PolicyInv'
  BY <1>1 DEF Write
<1>2. ASSUME NEW c \in Guarded, Surrender(c) PROVE PolicyInv'
  BY <1>2 DEF Surrender
<1>3. ASSUME NEW c \in Guarded, NEW rwx \in SUBSET {"R", "W", "X"}, Return(c, rwx)
      PROVE PolicyInv'
  <2>1. ~ {"W", "X"} \subseteq rwx /\ ("X" \in rwx => content[c] \in Signed)
    BY <1>3 DEF Return
  <2> QED
    BY <1>3, <2>1 DEF Return
<1>4. CASE UNCHANGED policyVars
  BY <1>4 DEF policyVars
<1> QED
  BY <1>1, <1>2, <1>3, <1>4 DEF Next

(* In every behaviour of the policy executable heap content is signed and  *)
(* no chunk is writable and executable at once (monitor.c:299-331).        *)
THEOREM PolicyIsSafe ==
    ASSUME Guarded \subseteq Chunk
    PROVE  Spec => []PolicySafe
<1>1. Init => PolicyInv
  BY DEF Init, PolicyInv, Typing, PolicySafe
<1>2. PolicyInv => PolicySafe
  BY DEF PolicyInv
<1>3. PolicyInv /\ [Next]_policyVars => PolicyInv'
  BY PolicyStep
<1> QED
  BY <1>1, <1>2, <1>3, PTL DEF Spec
=============================================================================
