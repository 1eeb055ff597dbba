------------------------------- MODULE FanOut -------------------------------
(***************************************************************************)
(* What the two concurrent workspace processors promise their caller.      *)
(*                                                                         *)
(* NewHydrateLatestDetectionPlanProcessor (hydrate.go) and                 *)
(* NewDriftDetectionPlanWaitProcessor (wait.go) both take a list of        *)
(* workspaces, ask something about every one of them concurrently, index   *)
(* the replies by workspace ID and hand the list back "in the correct      *)
(* order" (hydrate.go:53).  Seen from outside, a call is opened with a     *)
(* list, replies about workspaces OF THAT LIST arrive in any order, and    *)
(* the call closes only when every position has its workspace's own reply. *)
(***************************************************************************)
EXTENDS Sequences, Naturals

CONSTANTS Calls,       \* the calls of Process
          Workspaces,  \* the workspace IDs
          Replies,     \* Replies[w]: what can be answered about workspace w
          Missing      \* indexed by nothing: no reply yet

VARIABLES phase,       \* phase[c]: not begun, open or done
          input,       \* input[c]: the list the caller passed
          found,       \* found[c][w]: the reply indexed for w, or Missing
          output       \* output[c]: the list the call returned

fvars == <<phase, input, found, output>>

\* A workspace of the output list: its ID and the reply put on it.
Entry(w, r) == [id |-> w, reply |-> r]

Nothing == [w \in Workspaces |-> Missing]

Init ==
  /\ phase = [c \in Calls |-> "new"]
  /\ input = [c \in Calls |-> << >>]
  /\ found = [c \in Calls |-> Nothing]
  /\ output = [c \in Calls |-> << >>]

Begin(c) ==
  /\ phase[c] = "new"
  /\ phase' = [phase EXCEPT ![c] = "open"]
  /\ input'[c] \in Seq(Workspaces)
  /\ input' = [input EXCEPT ![c] = input'[c]]
  /\ UNCHANGED <<found, output>>

\* A reply about a workspace of this call's list.
Answer(c) ==
  /\ phase[c] = "open"
  /\ \E i \in DOMAIN input[c] :
       LET w == input[c][i]
           r == found'[c][w]
       IN  /\ r \in Replies[w]
           /\ found' = [found EXCEPT ![c] = [@ EXCEPT ![w] = r]]
  /\ UNCHANGED <<phase, input, output>>

Return(c) ==
  /\ phase[c] = "open"
  /\ \A i \in DOMAIN input[c] : found[c][input[c][i]] # Missing
  /\ phase' = [phase EXCEPT ![c] = "done"]
  /\ output' = [output EXCEPT ![c] =
                  [i \in DOMAIN input[c] |->
                     Entry(input[c][i], found[c][input[c][i]])]]
  /\ UNCHANGED <<input, found>>

Next == \E c \in Calls : Begin(c) \/ Answer(c) \/ Return(c)

Spec == Init /\ [][Next]_fvars
=============================================================================
