----------------------------- MODULE IdealCalls -----------------------------
(***************************************************************************)
(* What an application may expect of a call to the host: the host does     *)
(* what it was asked, once or not at all, and the reply says which.        *)
(***************************************************************************)
EXTENDS Integers, SequencesExt

CONSTANT Errors     \* replies to a call that the host did not carry out

VARIABLES
    asked,      \* the request that is being made
    answer,     \* what the host did: for which request, how often, its results
    reply       \* what the application got

NoCall == [num |-> "none"]

Init == asked = NoCall /\ answer.times = 0 /\ reply.out = <<>>

\* A request; what was answered and got before no longer counts.
Ask ==
    /\ asked = NoCall
    /\ answer'.times = 0 /\ reply'.out = <<>>

\* The host carries out the request, as it was made.
Serve ==
    /\ asked # NoCall /\ answer.times = 0
    /\ answer'.times = 1 /\ answer'.to = asked
    /\ UNCHANGED <<asked, reply>>

\* The application learns that the request failed: it was not carried out, or the
\* host said so.
Refuse ==
    /\ asked # NoCall /\ (answer.times = 0 \/ ~answer.ok)
    /\ asked' = NoCall /\ UNCHANGED answer
    /\ reply'.ret \in Errors

\* The application gets what the host returned.  getcwd always succeeds.
Reply ==
    /\ asked # NoCall /\ answer.times = 1
    /\ asked' = NoCall /\ UNCHANGED answer
    /\ reply'.ret = answer.ret \/ asked.num = "getcwd"
    /\ \A i \in DOMAIN answer.out : IsPrefix(answer.out[i], reply'.out[i])

Next == Ask \/ Serve \/ Refuse \/ Reply

Spec == Init /\ [][Next]_<<asked, answer, reply>>
=============================================================================
