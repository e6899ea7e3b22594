------------------------------ MODULE NsfwGroup ------------------------------
(***************************************************************************)
(* The photos of one media group in handlers/nsfw_moderate.go.  Telegram   *)
(* sends each as an update of its own, and a goroutine handles each.  The  *)
(* first to store its channel in groupedDetectMap owns the group: it waits *)
(* for the others to send it their messages and looks at those.  Its own   *)
(* message nobody looks at.                                                *)
(*                                                                         *)
(* A channel is named by the photo whose goroutine made it.  What is done  *)
(* to a picture that is looked at (save it, count it) is elsewhere.        *)
(***************************************************************************)
EXTENDS Naturals, Sequences

CONSTANTS
  Photos,     \* of the group: Telegram allows ten
  ChanCap,    \* 10
  NoPhoto

ASSUME NsfwAssumption == NoPhoto \notin Photos /\ ChanCap \in Nat

VARIABLES
  nsPc,
  groupedDetectMap,    \* the entry of the group
  existsChn,           \* the channel a photo found there
  chn,                 \* the messages in a channel
  closed,              \* the channels that were closed
  replied,             \* the photos the bot has answered
  stolen               \* history: the goroutines whose entry another one has deleted

nsvars == <<nsPc, groupedDetectMap, existsChn, chn, closed, replied, stolen>>

\* The map entry, the channels and the handlers' places have their types
\* (moderateDetectGrouped).
NsTypeOK ==
  /\ nsPc \in [Photos -> {"new", "send", "own", "forget", "close", "leave", "done", "panic"}]
  /\ groupedDetectMap \in Photos \cup {NoPhoto}
  /\ existsChn \in [Photos -> Photos \cup {NoPhoto}]
  /\ chn \in [Photos -> Seq(Photos)]
  /\ closed \subseteq Photos
  /\ replied \subseteq Photos
  /\ stolen \subseteq Photos

NsInit ==
  /\ nsPc = [p \in Photos |-> "new"]
  /\ groupedDetectMap = NoPhoto
  /\ existsChn = [p \in Photos |-> NoPhoto]
  /\ chn = [p \in Photos |-> <<>>]
  /\ closed = {}
  /\ replied = {}
  /\ stolen = {}

NsGoto(p, from, to) == nsPc[p] = from /\ nsPc' = [nsPc EXCEPT ![p] = to]
-----------------------------------------------------------------------------
\* Fault: Store, whatever there is.
StoreAnyway(p) ==
  /\ groupedDetectMap' = p
  /\ NsGoto(p, "new", "own")
  /\ UNCHANGED <<existsChn, chn, closed, replied, stolen>>

LoadOrStore(p) ==
  /\ \/ /\ groupedDetectMap = NoPhoto
        /\ groupedDetectMap' = p
        /\ NsGoto(p, "new", "own")
        /\ UNCHANGED <<existsChn, closed>>
     \/ /\ groupedDetectMap # NoPhoto
        /\ existsChn' = [existsChn EXCEPT ![p] = groupedDetectMap]
        /\ closed' = closed \cup {p}
        /\ NsGoto(p, "new", "send")
        /\ UNCHANGED groupedDetectMap
  /\ UNCHANGED <<chn, replied, stolen>>

Send(p) ==
  /\ NsGoto(p, "send", "done")
  /\ existsChn[p] \notin closed
  /\ Len(chn[existsChn[p]]) < ChanCap
  /\ chn' = [chn EXCEPT ![existsChn[p]] = Append(@, p)]
  /\ UNCHANGED <<groupedDetectMap, existsChn, closed, replied, stolen>>

\* The dispatcher recovers the panic, and nobody looks at the photo.
SendOnClosed(p) ==
  /\ NsGoto(p, "send", "panic")
  /\ existsChn[p] \in closed
  /\ UNCHANGED <<groupedDetectMap, existsChn, chn, closed, replied, stolen>>

\* One message after the other, until one is answered.
Receive(p) ==
  /\ nsPc[p] = "own"
  /\ chn[p] # <<>>
  /\ chn' = [chn EXCEPT ![p] = Tail(@)]
  /\ \/ UNCHANGED <<nsPc, replied>>
     \/ NsGoto(p, "own", "leave") /\ replied' = replied \cup {Head(chn[p])}
  /\ UNCHANGED <<groupedDetectMap, existsChn, closed, stolen>>

\* Fault: the break leaves the select and not the loop.
TimeOutLoops(p) == nsPc[p] = "own" /\ UNCHANGED nsvars

\* After ten seconds without a message; one that comes just then may lose the select.
TimeOut(p) ==
  /\ NsGoto(p, "own", "forget")
  /\ UNCHANGED <<groupedDetectMap, existsChn, chn, closed, replied, stolen>>

\* groupedDetectMap.Delete, whoever's channel is there.
DeleteGroup(p) ==
  /\ groupedDetectMap' = NoPhoto
  /\ stolen' = stolen \cup ({groupedDetectMap} \ {p, NoPhoto})

\* Fault: the channel is closed before the entry is deleted.
CloseFirst(p) ==
  /\ NsGoto(p, "forget", "close")
  /\ closed' = closed \cup {p}
  /\ UNCHANGED <<groupedDetectMap, existsChn, chn, replied, stolen>>

Forget(p) ==
  /\ NsGoto(p, "forget", "close")
  /\ DeleteGroup(p)
  /\ UNCHANGED <<existsChn, chn, closed, replied>>

\* Fault: the channel that is in the map by now is closed.
CloseEntry(p) ==
  /\ NsGoto(p, "close", "leave")
  /\ closed' = closed \cup {groupedDetectMap}
  /\ UNCHANGED <<groupedDetectMap, existsChn, chn, replied, stolen>>

Close(p) ==
  /\ NsGoto(p, "close", "leave")
  /\ closed' = closed \cup {p}
  /\ UNCHANGED <<groupedDetectMap, existsChn, chn, replied, stolen>>

\* The deferred delete, a second one after a time-out.
LeaveGroup(p) ==
  /\ NsGoto(p, "leave", "done")
  /\ DeleteGroup(p)
  /\ UNCHANGED <<existsChn, chn, closed, replied>>
-----------------------------------------------------------------------------
NsStep(p) ==
  \/ Send(p) \/ SendOnClosed(p) \/ Receive(p) \/ TimeOut(p) \/ Forget(p) \/ Close(p)
  \/ LeaveGroup(p)

NsEnded(p) == nsPc[p] \in {"done", "panic"}

\* When all photos are done with, the next group has an id, and so an entry, of its own.
NextGroup ==
  /\ \A p \in Photos : NsEnded(p)
  /\ nsPc' = [p \in Photos |-> "new"]
  /\ groupedDetectMap' = NoPhoto
  /\ existsChn' = [p \in Photos |-> NoPhoto]
  /\ chn' = [p \in Photos |-> <<>>]
  /\ closed' = {}
  /\ replied' = {}
  /\ stolen' = {}

NsNext == NextGroup \/ \E p \in Photos : LoadOrStore(p) \/ NsStep(p)

\* A goroutine that has a channel to wait for gets its ten seconds sooner or later.
NsFairness == \A p \in Photos : WF_nsvars(NsStep(p))

NsSpec == NsInit /\ [][NsNext]_nsvars /\ NsFairness
-----------------------------------------------------------------------------
\* The map leads to an open channel, of a goroutine that has yet to delete the entry:
\* nobody who looks now is going to panic, and no group stays in the map
\* (moderateDetectGrouped).
EntryIsOpen ==
  groupedDetectMap # NoPhoto =>
    /\ groupedDetectMap \notin closed
    /\ ~NsEnded(groupedDetectMap)

\* Two goroutines collect the photos of a group at the same time, so that the bot may
\* answer it twice, only if the entry of one of them was deleted by one that had timed
\* out before (moderateDetectGrouped).
SecondOwnerOnlyIfStolen ==
  \A p, r \in Photos : p # r /\ nsPc[p] = "own" /\ nsPc[r] = "own" => {p, r} \cap stolen # {}

\* The entry of a group leads to its collector, and to one only (moderateDetectGrouped).
EntryKept == EntryIsOpen /\ SecondOwnerOnlyIfStolen

\* A goroutine with a photo for somebody else comes to an end, even if that one is gone;
\* an owner does, too (moderateDetectGrouped).
HandlersEnd == \A p \in Photos : nsPc[p] \in {"send", "own"} ~> NsEnded(p)
=============================================================================
