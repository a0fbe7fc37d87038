------------------------------ MODULE CallCleanup ------------------------------
(***************************************************************************)
(* What tools/build_incoming_reject_fix.py makes of the callback           *)
(* onCallStartFailed of ImsPhoneCallTracker$8, among the calls of a phone. *)
(*                                                                         *)
(* External, as the script's comments describe it: AOSP's tracker, which   *)
(* finds a connection by the callback's ImsCall object, and LG's IMS,      *)
(* which ends every call with one callback, reports a rejected incoming    *)
(* call as start-failed, and may do so with another ImsCall object.  The   *)
(* callbacks arrive in any order, and any number of calls may ring.        *)
(***************************************************************************)
EXTENDS Naturals, Sequences, SequencesExt

CONSTANTS
    Incoming, Outgoing,   \* the calls
    Detached,     \* the incoming ones whose start-failed callback may carry
                  \* another object
    None

ASSUME CallAssumption ==
    /\ Incoming \cap Outgoing = {} /\ None \notin Incoming \cup Outgoing
    /\ Detached \subseteq Incoming

Calls == Incoming \cup Outgoing
\* 146 (silent redial), any other code, and the end of a call that had started.
Ends == {"redial", "failed", "terminated"}

VARIABLES
    conn,         \* the state of each call's ImsPhoneConnection
    ringing,      \* mRingingCall's connections, the first one first
    pendingMO,    \* mPendingMO
    ims,          \* LG's IMS: what became of each call
    callbacks,    \* the callbacks on their way, <<end, call, own object?>>,
                  \* one of a call at most, and no order among them
    together      \* history: the calls that shared mRingingCall with another
vars == <<conn, ringing, pendingMO, ims, callbacks, together>>

TypeOK ==
    /\ conn \in [Calls -> {"none", "dialing", "alerting", "ringing", "active",
                           "disconnecting", "gone"}]
    /\ ringing \in Seq(Incoming)
    /\ pendingMO \in Outgoing \cup {None}
    /\ ims \in [Calls -> {"none", "live", "over"}]
    /\ callbacks \subseteq Ends \X Calls \X BOOLEAN
    /\ together \subseteq Incoming

Init ==
    /\ conn = [c \in Calls |-> "none"] /\ ringing = << >> /\ pendingMO = None
    /\ ims = [c \in Calls |-> "none"] /\ callbacks = {} /\ together = {}

Tracked(c) == conn[c] \notin {"none", "gone"}

-----------------------------------------------------------------------------
(* External: the user, the network and LG's IMS.                           *)

Becomes(c, s) == conn' = [conn EXCEPT ![c] = s]

\* The tracker dials unless a call rings or is on its way out.
Dial(o) ==
    /\ ims[o] = "none" /\ \A c \in Calls : conn[c] \notin {"dialing", "alerting", "ringing"}
    /\ Becomes(o, "dialing") /\ pendingMO' = o
    /\ ims' = [ims EXCEPT ![o] = "live"]
    /\ UNCHANGED <<ringing, callbacks, together>>

\* "Once a call progresses from DIALING to ALERTING, AOSP clears mPendingMO."
Alerting(o) ==
    /\ ims[o] = "live" /\ conn[o] = "dialing"
    /\ Becomes(o, "alerting") /\ pendingMO' = IF pendingMO = o THEN None ELSE pendingMO
    /\ UNCHANGED <<ringing, ims, callbacks, together>>

\* Another call may ring already, or have been rejected and not be gone yet.
Ring(i) ==
    /\ ims[i] = "none"
    /\ Becomes(i, "ringing") /\ ringing' = Append(ringing, i)
    /\ together' = together \cup IF ringing = << >> THEN {} ELSE ToSet(ringing')
    /\ ims' = [ims EXCEPT ![i] = "live"]
    /\ UNCHANGED <<pendingMO, callbacks>>

Answer(c) ==
    /\ ims[c] = "live" /\ conn[c] \in {"alerting", "ringing"}
    /\ Becomes(c, "active") /\ ringing' = RemoveFirst(ringing, c)
    /\ UNCHANGED <<pendingMO, ims, callbacks, together>>

\* IMS ends a call for either side.
End(c, kinds) ==
    /\ ims[c] = "live"
    /\ ims' = [ims EXCEPT ![c] = "over"]
    /\ \E k \in kinds, own \in BOOLEAN :
          /\ own \/ (k # "terminated" /\ c \in Detached)
          /\ callbacks' = callbacks \cup {<<k, c, own>>}

\* The user rejects a ringing call or hangs up: "IMS reports a locally
\* rejected call as start-failed", and an outgoing one that did not start too.
HangUp(c) ==
    /\ conn[c] \in {"dialing", "alerting", "ringing", "active"}
    /\ Becomes(c, "disconnecting")
    /\ IF ims[c] = "over" THEN UNCHANGED <<ims, callbacks>>
       ELSE End(c, IF conn[c] = "active" THEN {"terminated"} ELSE {"failed"})
    /\ UNCHANGED <<ringing, pendingMO, together>>

\* The other side hangs up, or the network ends the call.
RemoteEnd(c) ==
    /\ End(c, IF conn[c] \in {"dialing", "alerting"} THEN {"failed", "redial"} ELSE {"terminated"})
    /\ UNCHANGED <<conn, ringing, pendingMO, together>>

-----------------------------------------------------------------------------
(* External: AOSP's tracker.                                               *)

\* The connection of the callback's ImsCall.
FindConnection(c, own) == IF Tracked(c) /\ own THEN c ELSE None

\* onDisconnect, detach, removeConnection.
Removed(c) == /\ conn' = [conn EXCEPT ![c] = "gone"]
              /\ ringing' = RemoveFirst(ringing, c)

\* sendCallStartFailedDisconnect: no pending call, and the call's connection,
\* if it is found, ends.
SendCallStartFailedDisconnect(found) ==
    /\ pendingMO' = None
    /\ IF found # None THEN Removed(found) ELSE UNCHANGED <<conn, ringing>>

ForegroundAlerting == \E o \in Outgoing : conn[o] = "alerting"

OnCallTerminated(c) ==
    /\ IF Tracked(c) THEN Removed(c) ELSE UNCHANGED <<conn, ringing>>
    /\ UNCHANGED pendingMO

-----------------------------------------------------------------------------
(* onCallStartFailed with the two fixes.                                   *)

\* Mutant: mRingingCall is asked first.
RejectTarget_RingingFirst(found) ==
    IF ringing # << >> THEN Head(ringing)
    ELSE IF found \in Incoming THEN found ELSE None

\* Mutant: no fallback.
RejectTarget_FoundOnly(found) == IF found \in Incoming THEN found ELSE None

\* Which connection fix 1 cleans up: the callback's if it is incoming; without
\* one, the first of mRingingCall.
RejectTarget(found) ==
    IF found # None THEN IF found \in Incoming THEN found ELSE None
    ELSE IF ringing # << >> THEN Head(ringing) ELSE None

\* Mutant: removeConnection alone, which leaves it in mRingingCall.
RejectCleanup_NoDetach(c) ==
    /\ conn' = [conn EXCEPT ![c] = "gone"]
    /\ UNCHANGED <<ringing, pendingMO>>

\* :v2_reject_cleanup, which returns.
RejectCleanup(c) == Removed(c) /\ UNCHANGED pendingMO

\* Mutant: AOSP without fix 2.
MoCancelled_Returns(end, found) == UNCHANGED <<conn, ringing, pendingMO>>

\* :v3_mo_cancel_fallback, the way out of both bailouts.
MoCancelled(end, found) == SendCallStartFailedDisconnect(found)

\* AOSP's part: a pending call; the silent redial of an alerting one; else the
\* bailouts of fix 2.
StartFailedAosp(end, found) ==
    IF pendingMO # None THEN SendCallStartFailedDisconnect(found)
    ELSE IF end = "redial" /\ ForegroundAlerting
    THEN /\ IF found # None THEN Removed(found) ELSE UNCHANGED <<conn, ringing>>
         /\ UNCHANGED pendingMO
    ELSE MoCancelled(end, found)

OnCallStartFailed(end, c, own) ==
    LET found == FindConnection(c, own)
        target == RejectTarget(found)
    IN IF target # None THEN RejectCleanup(target) ELSE StartFailedAosp(end, found)

\* A callback arrives, in whatever order.
Deliver ==
    \E cb \in callbacks :
        /\ IF cb[1] = "terminated" THEN OnCallTerminated(cb[2])
           ELSE OnCallStartFailed(cb[1], cb[2], cb[3])
        /\ callbacks' = callbacks \ {cb}
        /\ UNCHANGED <<ims, together>>

-----------------------------------------------------------------------------

UserOrNetwork ==
    \/ \E o \in Outgoing : Dial(o) \/ Alerting(o)
    \/ \E i \in Incoming : Ring(i)
    \/ \E c \in Calls : Answer(c) \/ HangUp(c) \/ RemoteEnd(c)

Next == UserOrNetwork \/ Deliver

\* Callbacks arrive; nobody has to call.
Spec == Init /\ [][Next]_vars /\ WF_vars(Deliver)

-----------------------------------------------------------------------------
(* Properties.                                                             *)

\* A connection whose call is over at IMS has the callback that will remove it
\* still to come, and is not RINGING or DISCONNECTING for ever
\* (tools/build_incoming_reject_fix.py:1-29), unless its callback may have lost
\* its object and another call was in mRingingCall with it: the fallback may
\* then have taken that one.
NoStuckCall ==
    \A c \in Calls \ (Detached \cap together) : Tracked(c) /\ ims[c] = "over" =>
        \E cb \in callbacks : cb[2] = c

\* What rings is tracked: a fallback never picks a connection that is gone.
RingingTracked == \A k \in DOMAIN ringing : Tracked(ringing[k])

\* Call c rings beside one that was rejected and whose callback may have lost
\* its object.
BesideRejected(c) ==
    conn[c] = "ringing" /\ \E d \in Detached \cap (ToSet(ringing) \ {c}) : ims[d] = "over"

\* The cleanup of one call, in whatever order the callbacks come, takes another
\* live one only in that case: never one that was answered or dialled, never
\* one that rings alone.
LiveStays ==
    [][\A c \in Calls : ims[c] = "live" /\ Tracked(c) /\ ~BesideRejected(c) => Tracked(c)']_vars

\* Every call that is over leaves the tracker, with the same exception.
CallsEnd ==
    \A c \in Calls : ims[c] = "over" ~> (conn[c] = "gone" \/ c \in Detached \cap together)
=============================================================================
