------------------------------- MODULE MCMedia --------------------------------
(***************************************************************************)
(* Downloads, the photos of a group and debounced answers, checked side by *)
(* side with TLC.  They share no state; part, chosen once, says which of   *)
(* them a behaviour is about, and the others stay in their initial states. *)
(***************************************************************************)
EXTENDS Download, NsfwGroup, Debounce

CONSTANT MCDlKeys    \* bound: which keys the requests are for

VARIABLE part

mediavars == <<part, dlvars, nsvars, dbvars>>

MediaInit ==
  /\ part \in {"download", "photos", "debounce"}
  /\ NsInit /\ DbInit
  /\ dlKey \in MCDlKeys /\ DlInit
  /\ part # "download" => dlKey = CHOOSE f \in MCDlKeys : TRUE

MediaNext ==
  /\ UNCHANGED part
  /\ \/ part = "download" /\ DlNext /\ UNCHANGED <<nsvars, dbvars>>
     \/ part = "photos"   /\ NsNext /\ UNCHANGED <<dlvars, dbvars>>
     \/ part = "debounce" /\ DbNext /\ UNCHANGED <<dlvars, nsvars>>

MediaSpec ==
  /\ MediaInit /\ [][MediaNext]_mediavars
  /\ DlFairness /\ NsFairness /\ WF_dbvars(DbTimers)

\* Two keys: one that all requests are for, or one that only one of them is for.
OneKey   == [r \in Requests |-> CHOOSE k \in DlKeys : TRUE]
OtherKey == CHOOSE k \in DlKeys : k # CHOOSE l \in DlKeys : TRUE
MCKeysOfRequests ==
  {OneKey, [OneKey EXCEPT ![CHOOSE r \in Requests : TRUE] = OtherKey]}

\* The variables of downloads, groups and answers have their types.
MediaTypeOK == DlTypeOK /\ NsTypeOK /\ DbTypeOK

\* Nobody waits for ever: neither a request for whoever shares its download, nor a photo
\* for the collector of its group (downloadMedia, moderateDetectGrouped).
EverybodyEnds == RequestsEnd /\ HandlersEnd
==============================================================================
