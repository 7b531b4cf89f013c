--------------------------- MODULE MCChannelWorker ---------------------------
(***************************************************************************)
(* ChannelWorker for TLC.                                                  *)
(***************************************************************************)
EXTENDS ChannelWorker, TLC

Symmetry == Permutations(Messages)

(* What the worker shows to the outside is true: the ids it keeps in the   *)
(* global queue mirror what is buffered, and every presence mark and the   *)
(* typing loop have a task or an event behind them (channel-worker.ts      *)
(* queuedGlobalIds, beginTaskPresence).                                    *)
OutsideTrue == MirrorCovers /\ PresenceHasCause
=============================================================================
