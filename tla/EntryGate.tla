----------------------------- MODULE EntryGate -----------------------------
(***************************************************************************)
(* The debug latches at the entry points of OrderBook (src/OrderBook.h):   *)
(* debug_entry_gate, EntryLatch and book_fault, called by several threads  *)
(* and from inside on_trade.  Behind the gate is the body of a call, which *)
(* here records journal entries and, for add_order, calls on_trade; what   *)
(* else it does is module OrderBook.                                       *)
(*                                                                         *)
(* A thread has a stack of calls, a nested one being made by its on_trade. *)
(* A call is at "gate"; or in book_fault at "read", "swap", "restore" or   *)
(* "decide"; or behind the gate at "body", at "record" (the entry stored,  *)
(* the position not yet bumped) or at "on_trade".                          *)
(***************************************************************************)
EXTENDS Journal

CONSTANTS
  Threads,      \* the threads of the process
  Owner,        \* owner_thread_, the one that constructed the book
  MaxDepth      \* bound: nested calls of a thread

ASSUME GateAssumption ==
  /\ Owner \in Threads
  /\ Threads \subseteq Writers
  /\ MaxDepth \in Nat

VARIABLES
  calls,             \* the calls each thread is in, outermost first
  in_public_entry,   \* in_public_entry_
  handler,           \* current in set_book_fault_handler: none, or what it answers
  installed,         \* history: the handler a client installed last
  overlapped,        \* history: a fault has met another, or an installation
  aborted            \* std::abort was called

gateVars == <<calls, in_public_entry, handler, installed, overlapped, aborted>>
allVars == <<entries, capacity, mask, pos, storing, log,
             calls, in_public_entry, handler, installed, overlapped, aborted>>

Handlers == {"none", "Abort", "SkipOperation"}
Behind == {"body", "record", "on_trade"}
Stages == {"gate", "read", "swap", "restore", "decide"} \cup Behind
EntryPoints == {"add_order", "cancel_order"}
Calls == [entry : EntryPoints, at : Stages, got : Handlers]

Top(t) == calls[t][Len(calls[t])]
AtStage(t, stage) == ~aborted /\ calls[t] # <<>> /\ Top(t).at = stage

\* The innermost call of thread t goes on at another stage, or returns.
Goto(t, stage) == calls' = [calls EXCEPT ![t][Len(calls[t])].at = stage]
Leave(t) == calls' = [calls EXCEPT ![t] = SubSeq(@, 1, Len(@) - 1)]

\* Threads in book_fault that have read the handler.
InFault(stages) == \E t \in Threads : calls[t] # <<>> /\ Top(t).at \in stages

GateInit ==
  /\ JournalInit
  /\ calls = [t \in Threads |-> <<>>]
  /\ in_public_entry = FALSE
  /\ handler = "none"
  /\ installed = "none"
  /\ overlapped = FALSE
  /\ aborted = FALSE

-----------------------------------------------------------------------------
(***************************************************************************)
(* A thread calls add_order or cancel_order, at top level or from inside   *)
(* its on_trade.                                                           *)
(***************************************************************************)
Call(t, entry) ==
  /\ ~aborted
  /\ calls[t] # <<>> => Top(t).at = "on_trade" /\ Len(calls[t]) < MaxDepth
  /\ calls' = [calls EXCEPT ![t] = Append(@, [entry |-> entry, at |-> "gate", got |-> "none"])]
  /\ UNCHANGED <<journalVars, in_public_entry, handler, installed, overlapped, aborted>>

\* Mutant of Refused: only the re-entrancy latch is looked at.
RefusedReentryOnly(t) == in_public_entry

\* debug_entry_gate faults: a foreign thread, then a call from inside a call.
Refused(t) == t # Owner \/ in_public_entry

(***************************************************************************)
(* debug_entry_gate lets the call through and EntryLatch sets the flag, or *)
(* it calls book_fault.                                                    *)
(***************************************************************************)
Enter(t) ==
  /\ AtStage(t, "gate")
  /\ ~Refused(t)
  /\ Goto(t, "body")
  /\ in_public_entry' = TRUE
  /\ UNCHANGED <<journalVars, handler, installed, overlapped, aborted>>

Fault(t) ==
  /\ AtStage(t, "gate")
  /\ Refused(t)
  /\ Goto(t, "read")
  /\ UNCHANGED <<journalVars, in_public_entry, handler, installed, overlapped, aborted>>

(***************************************************************************)
(* book_fault reads the handler by swapping nullptr in and puts it back.   *)
(* The static it swaps is not synchronised.                                *)
(***************************************************************************)
FaultRead(t) ==
  /\ AtStage(t, "read")
  /\ calls' = [calls EXCEPT ![t][Len(calls[t])] = [@ EXCEPT !.at = "swap", !.got = handler]]
  /\ overlapped' = (overlapped \/ InFault({"swap", "restore"}))
  /\ UNCHANGED <<journalVars, in_public_entry, handler, installed, aborted>>

FaultSwap(t) ==
  /\ AtStage(t, "swap")
  /\ handler' = "none"
  /\ Goto(t, "restore")
  /\ UNCHANGED <<journalVars, in_public_entry, installed, overlapped, aborted>>

\* Mutant of FaultRestore: the handler that was read is not put back.
FaultRestoreForgets(t) ==
  /\ AtStage(t, "restore")
  /\ Goto(t, "decide")
  /\ UNCHANGED <<journalVars, in_public_entry, handler, installed, overlapped, aborted>>

FaultRestore(t) ==
  /\ AtStage(t, "restore")
  /\ handler' = Top(t).got
  /\ Goto(t, "decide")
  /\ UNCHANGED <<journalVars, in_public_entry, installed, overlapped, aborted>>

\* Mutant of Blocked: the latch is set before the gate is asked, and clears
\* the flag when the blocked call returns.
BlockedUnlatches(t) ==
  /\ AtStage(t, "decide")
  /\ Top(t).got = "SkipOperation"
  /\ Leave(t)
  /\ in_public_entry' = FALSE
  /\ UNCHANGED <<journalVars, handler, installed, overlapped, aborted>>

(***************************************************************************)
(* The handler skips the operation, and the call returns ReentrancyBlocked *)
(* with nothing filled and no latch of its own; or the process aborts.     *)
(***************************************************************************)
Blocked(t) ==
  /\ AtStage(t, "decide")
  /\ Top(t).got = "SkipOperation"
  /\ Leave(t)
  /\ UNCHANGED <<journalVars, in_public_entry, handler, installed, overlapped, aborted>>

Abort(t) ==
  /\ AtStage(t, "decide")
  /\ Top(t).got # "SkipOperation"
  /\ aborted' = TRUE
  /\ UNCHANGED <<journalVars, calls, in_public_entry, handler, installed, overlapped>>

-----------------------------------------------------------------------------
(***************************************************************************)
(* The body of a call: it records entries, add_order calls on_trade, and   *)
(* on return ~EntryLatch clears the flag.                                  *)
(***************************************************************************)
RecordStore(t, e) ==
  /\ AtStage(t, "body")
  /\ Store(t, e)
  /\ Goto(t, "record")
  /\ UNCHANGED <<in_public_entry, handler, installed, overlapped, aborted>>

RecordBump(t) ==
  /\ AtStage(t, "record")
  /\ Bump(t)
  /\ Goto(t, "body")
  /\ UNCHANGED <<in_public_entry, handler, installed, overlapped, aborted>>

\* Mutant of CallOnTrade: the callback may run before the entry is published.
CallOnTradeEarly(t) ==
  /\ AtStage(t, "body") \/ AtStage(t, "record")
  /\ Top(t).entry = "add_order"
  /\ Goto(t, "on_trade")
  /\ UNCHANGED <<journalVars, in_public_entry, handler, installed, overlapped, aborted>>

CallOnTrade(t) ==
  /\ AtStage(t, "body")
  /\ Top(t).entry = "add_order"
  /\ Goto(t, "on_trade")
  /\ UNCHANGED <<journalVars, in_public_entry, handler, installed, overlapped, aborted>>

OnTradeReturns(t) ==
  /\ AtStage(t, "on_trade")
  /\ Goto(t, "body")
  /\ UNCHANGED <<journalVars, in_public_entry, handler, installed, overlapped, aborted>>

Return(t) ==
  /\ AtStage(t, "body")
  /\ Leave(t)
  /\ in_public_entry' = FALSE
  /\ UNCHANGED <<journalVars, handler, installed, overlapped, aborted>>

-----------------------------------------------------------------------------
(***************************************************************************)
(* Outside the book: any thread may install a handler between its calls,   *)
(* and the owner may clear the journal between its calls or in on_trade.   *)
(***************************************************************************)
SetBookFaultHandler(t, h) ==
  /\ ~aborted
  /\ calls[t] = <<>>
  /\ handler' = h
  /\ installed' = h
  /\ overlapped' = (overlapped \/ InFault({"swap", "restore", "decide"}))
  /\ UNCHANGED <<journalVars, calls, in_public_entry, aborted>>

ClearJournal ==
  /\ ~aborted
  /\ calls[Owner] # <<>> => Top(Owner).at = "on_trade"
  /\ Clear
  /\ UNCHANGED gateVars

ThreadStep(t) ==
  \/ \E entry \in EntryPoints : Call(t, entry)
  \/ Enter(t)
  \/ Fault(t)
  \/ FaultRead(t)
  \/ FaultSwap(t)
  \/ FaultRestore(t)
  \/ Blocked(t)
  \/ Abort(t)
  \/ \E e \in Entries : RecordStore(t, e)
  \/ RecordBump(t)
  \/ CallOnTrade(t)
  \/ OnTradeReturns(t)
  \/ Return(t)
  \/ \E h \in Handlers : SetBookFaultHandler(t, h)

GateNext == (\E t \in Threads : ThreadStep(t)) \/ ClearJournal

GateSpec == GateInit /\ [][GateNext]_allVars

-----------------------------------------------------------------------------
(***************************************************************************)
(* Only the constructing thread's outermost call is ever behind the gate:  *)
(* the body of add_order or cancel_order never runs inside another one or  *)
(* beside one, whatever threads and callbacks call.                        *)
(***************************************************************************)
OwnerAlone ==
  \A t \in Threads : \A k \in 1 .. Len(calls[t]) :
    calls[t][k].at \in Behind => t = Owner /\ k = 1

(***************************************************************************)
(* The latch is set exactly while the owner's outermost call is behind the *)
(* gate; a call that was blocked inside it has not cleared it.             *)
(***************************************************************************)
LatchExact ==
  in_public_entry <=> calls[Owner] # <<>> /\ calls[Owner][1].at \in Behind

(***************************************************************************)
(* "returning SkipOperation makes the blocked call return                  *)
(* RejectReason::ReentrancyBlocked instead of aborting": true as long as   *)
(* book_fault's read of the handler met no other fault and no              *)
(* installation, however many faults came before.                          *)
(***************************************************************************)
SkipHonoured == aborted => installed # "SkipOperation" \/ overlapped

(***************************************************************************)
(* The gate keeps the ring's contract: no entry is recorded while another  *)
(* one is, by another thread or by a call from inside on_trade.            *)
(***************************************************************************)
KeepsJournalContract == JournalSpec
=============================================================================
