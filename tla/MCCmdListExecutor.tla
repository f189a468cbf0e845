------------------------- MODULE MCCmdListExecutor -------------------------
(***************************************************************************)
(* Every list of up to three of seven commands, and lists of four chosen   *)
(* for the ways in which their commands overlap.                           *)
(***************************************************************************)
EXTENDS CmdListExecutor

Command(kind, critical) ==
  [kind |-> kind, critical |-> critical, condition |-> TRUE, timeout |-> FALSE]

Signal == Command("ESsmWaitForSignal", TRUE)
Forget == Command("ESsmFireAndForget", TRUE)
Deferred == Command("ESsmDeferredWaitForSignal", TRUE)
Ignored == Command("ESsmDeferredWaitForSignal", FALSE)
IgnoredSignal == Command("ESsmWaitForSignal", FALSE)
Wait == Command("MultipleWait", FALSE)
TimedWait == [Wait EXCEPT !.timeout = TRUE]
Skipped(c) == [c EXCEPT !.condition = FALSE]

Palette ==
  {Signal, IgnoredSignal, Deferred, Ignored, Wait, TimedWait, Skipped(Deferred)}

ShortLists == UNION {[1..n -> Palette] : n \in 1..3}

LongLists ==
  { <<Deferred, Deferred, TimedWait, Signal>>,
    <<Deferred, Ignored, Wait, Forget>>,
    <<Ignored, Deferred, TimedWait, Deferred>>,
    <<Deferred, TimedWait, Deferred, TimedWait>>,
    <<Signal, Deferred, Skipped(Wait), Signal>>,
    <<Skipped(Deferred), Deferred, Wait, Wait>>,
    <<IgnoredSignal, Deferred, Signal, Deferred>>,
    <<Wait, Skipped(Signal), Forget>> }

MCLists == ShortLists \cup LongLists

MCDelays == BOOLEAN

CancelLists == {<<Signal, Deferred, Deferred, TimedWait>>}
=============================================================================
