----------------------------- MODULE MCDpSolver -----------------------------
(***************************************************************************)
(* Small instances of DpSolver for TLC: every batch of up to three requests *)
(* drawn from a few kinds, under several windows.                           *)
(***************************************************************************)
EXTENDS DpSolver

CarbonOfThree == 0 :> 2 @@ 1 :> 1 @@ 2 :> 3
OneThenSteep == << [maxRequests |-> 1, multiplier |-> 1],
                   [maxRequests |-> NoLimit, multiplier |-> 3] >>

\* Two profiles of flavours: one with a fast and an exact one, one whose longest
\* flavour is not its most accurate.
FastOrExact == << [duration |-> 1, error |-> 4], [duration |-> 3, error |-> 0] >>
LongIsWorse == << [duration |-> 2, error |-> 1], [duration |-> 4, error |-> 3] >>

Kinds == {[earliest |-> 0, deadline |-> 2, flavours |-> FastOrExact],
          [earliest |-> 1, deadline |-> 1, flavours |-> FastOrExact],
          [earliest |-> 0, deadline |-> 1, flavours |-> LongIsWorse]}

Batches(n) == UNION {[1 .. k -> Kinds] : k \in 1 .. n}

Solve(batches, slots, baselines, windows, thresholds, prunings) ==
  {[requests |-> b, currentSlot |-> c, baseline |-> base, errorSum |-> w[1],
    errorCount |-> w[2], threshold |-> t, mocks |-> w[3], mockError |-> w[4],
    held |-> << >>, method |-> p[1], minBatch |-> p[2], k |-> p[3], limited |-> p[4]]
     : b \in batches, c \in slots, base \in baselines, w \in windows,
       t \in thresholds, p \in prunings}

Empty == [s \in 0 .. 2 |-> 0]
OneInFirst == 0 :> 1 @@ 1 :> 0 @@ 2 :> 0

\* No history; a spent budget whose count is a decayed fraction; mock requests
\* that dilute the window.
Windows == {<<0, 0, 0, 0>>, <<3, 1500, 0, 0>>, <<4, 4000, 2, 1>>}

\* Batches below the pruning threshold, and no time limit.
ExactInputs == Solve(Batches(2) \cup [1 .. 3 -> {[earliest |-> 0, deadline |-> 2, flavours |-> FastOrExact],
                                                 [earliest |-> 0, deadline |-> 1, flavours |-> LongIsWorse]}],
                     {0, 1, 3}, {Empty, OneInFirst}, Windows, {NoThreshold, 1, 2},
                     {<<"beam", 4, 2, FALSE>>})

\* Batches of two and three pruned to two states by cost or to three by cost and
\* average error, with a time limit.
PrunedInputs == Solve(Batches(3), {0, 1}, {OneInFirst}, Windows, {1, 2},
                      {<<"beam", 2, 2, TRUE>>, <<"kbest", 2, 3, TRUE>>})

\* The last request has been placed in slot 1 and is planned again.
ReplannedInputs ==
  {[in EXCEPT !.held = <<1>>] :
     in \in Solve([1 .. 2 -> Kinds], {0}, {Empty}, {<<3, 1500, 0, 0>>}, {0, 1},
                  {<<"beam", 0, 2, FALSE>>})}

AllInputs == ExactInputs \cup PrunedInputs \cup ReplannedInputs
=============================================================================
