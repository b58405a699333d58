--------------------------- MODULE OneUseApproval ---------------------------
(***************************************************************************)
(* What a signed approval promises (docs/modules/17, 18 and 23): an        *)
(* approval ID is spent at most once, and a spent approval has given       *)
(* authority to at most one caller.  An approval may also be spent without *)
(* giving authority to anyone ("burned"), when the claim was recorded but  *)
(* its caller never learned of it.                                         *)
(***************************************************************************)
CONSTANTS Approvals,  \* approval identifiers
          Callers     \* the executions that ask for authority

VARIABLES spent,    \* the approval identifiers recorded in the ledger
          holders   \* holders[a]: the callers that approval a gave authority to

approvalVars == <<spent, holders>>

ApprovalInit ==
  /\ spent = {}
  /\ holders = [a \in Approvals |-> {}]

\* The claim of approval a is recorded and answered: caller c has authority.
Grant(a, c) ==
  /\ a \notin spent
  /\ spent' = spent \cup {a}
  /\ holders' = [holders EXCEPT ![a] = @ \cup {c}]

\* The claim of approval a is recorded and its answer is lost.
Burn(a) ==
  /\ a \notin spent
  /\ spent' = spent \cup {a}
  /\ UNCHANGED holders

ApprovalNext ==
  \E a \in Approvals : Burn(a) \/ \E c \in Callers : Grant(a, c)

ApprovalSpec == ApprovalInit /\ [][ApprovalNext]_approvalVars

-----------------------------------------------------------------------------
ApprovalTypeOK ==
  /\ spent \subseteq Approvals
  /\ holders \in [Approvals -> SUBSET Callers]

\* Authority is given only by a recorded claim.
HeldIsSpent == \A a \in Approvals : holders[a] # {} => a \in spent

\* An approval gives authority to one caller at most.
OneHolder == \A a \in Approvals : \A c, d \in holders[a] : c = d
=============================================================================
