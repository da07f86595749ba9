----------------------------- MODULE LevelMaps -----------------------------
(***************************************************************************)
(* The editor window and its view model: one worker thread runs a bake, a  *)
(* preview of the map, or the load of the image a bake left on disk; its   *)
(* result comes back as a callback queued for the UI thread; the editor    *)
(* closes and opens levels in between.  A UI handler is one action, but    *)
(* for the one that waits for the worker.  Baking and reading themselves   *)
(* are MapSystem's and BakeRun's; here a bake makes a new version of a     *)
(* level's map, and perhaps of its image.                                  *)
(* Src: src/Editor/ViewModels/LevelMapsViewModel.cpp,                      *)
(* src/Editor/Views/JDKLevelMapsEditor.cpp, PathResolver.cpp.              *)
(***************************************************************************)
EXTENDS Integers, Sequences

CONSTANTS
  Levels, NoLevel,
  MaxBakes,    (* bound: versions of the files, one for each click on       *)
               (* Generate and one for earlier sessions                     *)
  MaxLoads,    (* bound: clicks on Load Preview                             *)
  MaxEvents    (* bound: levels begun                                       *)

ASSUME LevelMapsAssumption ==
  /\ Levels # {} /\ NoLevel \notin Levels
  /\ MaxBakes \in Nat /\ MaxLoads \in Nat /\ MaxEvents \in Nat

VARIABLES
  maps, images,  (* the version of each level's files on disk, 0 for none   *)
  bakes, loads, events,  (* counts of clicks and level events, for bounds;  *)
                 (* bakes is also the version a bake makes                *)
  paths,         (* the level whose directory CPathResolver holds           *)
  loaded,        (* m_bLevelLoaded                                          *)
  hasMap,        (* m_bHasMap                                               *)
  pixmap,        (* the preview shown                                       *)
  buttons,       (* what UpdateUIState last made of the two buttons         *)
  op, counter,   (* SOperationState                                         *)
  worker,        (* m_operationThread                                       *)
  posted,        (* callbacks queued for the UI thread                      *)
  joining,       (* the UI thread waits in JoinThread                       *)
  cancelled,     (* m_progress.bIsCancelled                                 *)
  stopped,       (* history: the number of the operation stopped, if its    *)
                 (* callback is still to come; 0 otherwise                  *)
  overlap        (* history: the last level event met an unfinished         *)
                 (* operation                                               *)

diskVars == <<maps, images, bakes>>
viewVars == <<loaded, hasMap, pixmap, buttons>>
opVars   == <<op, counter, worker>>
stopVars == <<cancelled, stopped>>
vars == <<diskVars, loads, events, paths, viewVars, opVars, posted, joining, stopVars, overlap>>

States == {"Idle", "BakingMap", "CancellingBake", "LoadingPreview", "CancellingPreview"}
Kinds  == {"bake", "map", "image"}
Places == Levels \cup {NoLevel}

NoPixmap == [kind |-> "none"]
NoWorker == [at |-> "none"]

(* started: has not asked CPathResolver yet.  posted: over but for the      *)
(* join.                                                                    *)
Running == worker.at \in {"started", "working"}

Versions == 0 .. MaxBakes
Version(files, place) == IF place = NoLevel THEN 0 ELSE files[place]

-----------------------------------------------------------------------------
(* UpdateUIState.  A button that is hidden or greyed is "off".              *)
MutantButtons(o, isLoaded, pix, has) ==  (* Generate is live while a bake is cancelled *)
  [generate |-> CASE o \in {"Idle", "CancellingBake"} /\ isLoaded -> "start"
                  [] o = "BakingMap"                              -> "stop"
                  [] OTHER                                        -> "off",
   load     |-> CASE o = "Idle" /\ pix = NoPixmap /\ has -> "start"
                  [] o = "LoadingPreview"                -> "stop"
                  [] OTHER                               -> "off"]

Buttons(o, isLoaded, pix, has) ==
  [generate |-> CASE o = "Idle" /\ isLoaded -> "start"
                  [] o = "BakingMap"        -> "stop"
                  [] OTHER                  -> "off",
   load     |-> CASE o = "Idle" /\ pix = NoPixmap /\ has -> "start"
                  [] o = "LoadingPreview"                -> "stop"
                  [] OTHER                               -> "off"]

UpdateUIState == buttons' = Buttons(op', loaded', pixmap', hasMap')

MutantLaunch(kind, n) ==  (* the operation's number is used again *)
  /\ op' = IF kind = "bake" THEN "BakingMap" ELSE "LoadingPreview"
  /\ counter' = n
  /\ worker' = [at |-> "started", kind |-> kind, id |-> n, level |-> NoLevel,
                closed |-> ~loaded']
  /\ cancelled' = FALSE

MutantLaunchAsIs(kind, n) ==  (* does not reset the progress *)
  /\ op' = IF kind = "bake" THEN "BakingMap" ELSE "LoadingPreview"
  /\ counter' = n + 1
  /\ worker' = [at |-> "started", kind |-> kind, id |-> n + 1, level |-> NoLevel,
                closed |-> ~loaded']
  /\ UNCHANGED cancelled

(* Reset, StartOperation and the worker's thread; n is the counter so far.  *)
Launch(kind, n) ==
  /\ op' = IF kind = "bake" THEN "BakingMap" ELSE "LoadingPreview"
  /\ counter' = n + 1
  /\ worker' = [at |-> "started", kind |-> kind, id |-> n + 1, level |-> NoLevel,
                closed |-> ~loaded']
  /\ cancelled' = FALSE

MutantAvailability(o, n) ==  (* forgets m_bHasMap and the old preview *)
  \/ /\ ~loaded'
     /\ pixmap' = NoPixmap
     /\ op' = o /\ counter' = n /\ UNCHANGED <<worker, cancelled, hasMap>>
  \/ /\ loaded' /\ Version(images, paths') # 0 /\ o = "Idle"
     /\ pixmap' = NoPixmap
     /\ Launch("image", n) /\ UNCHANGED hasMap
  \/ /\ loaded' /\ ~(Version(images, paths') # 0 /\ o = "Idle")
     /\ op' = o /\ counter' = n /\ UNCHANGED <<worker, cancelled, hasMap, pixmap>>

(* CheckPreviewAvailability and OnPreviewAvailabilityChanged, in state o    *)
(* and with counter n.  An image on disk is loaded at once, and then        *)
(* m_bHasMap is left as it was.                                             *)
CheckPreviewAvailability(o, n) ==
  /\ pixmap' = NoPixmap
  /\ \/ /\ ~loaded'
        /\ op' = o /\ counter' = n /\ UNCHANGED <<worker, cancelled, hasMap>>
     \/ /\ loaded' /\ Version(images, paths') # 0 /\ o = "Idle"
        /\ Launch("image", n) /\ UNCHANGED hasMap
     \/ /\ loaded' /\ ~(Version(images, paths') # 0 /\ o = "Idle")
        /\ hasMap' = (Version(maps, paths') # 0)
        /\ op' = o /\ counter' = n /\ UNCHANGED <<worker, cancelled>>

-----------------------------------------------------------------------------
(* The user.                                                                *)

ClickGenerate ==
  /\ ~joining /\ buttons.generate = "start" /\ ~Running /\ bakes < MaxBakes
  /\ bakes' = bakes + 1
  /\ UNCHANGED <<loaded, hasMap, pixmap>>
  /\ Launch("bake", counter) /\ UpdateUIState
  /\ UNCHANGED <<maps, images, loads, events, paths, posted, joining, stopped, overlap>>

ClickLoadPreview ==
  /\ ~joining /\ buttons.load = "start" /\ ~Running /\ loads < MaxLoads
  /\ loads' = loads + 1
  /\ UNCHANGED <<loaded, hasMap, pixmap>>
  /\ Launch("map", counter) /\ UpdateUIState
  /\ UNCHANGED <<diskVars, events, paths, posted, joining, stopped, overlap>>

(* StopBaking and StopLoadingPreview set the flag and force the state; the  *)
(* operation keeps its number.  When the worker sees the flag is BakeRun's  *)
(* affair: here an operation may fail at any time.                          *)
ClickStop ==
  /\ ~joining
  /\ \/ buttons.generate = "stop" /\ op' = "CancellingBake"
     \/ buttons.load = "stop" /\ op' = "CancellingPreview"
  /\ cancelled' = TRUE /\ stopped' = counter
  /\ UNCHANGED <<loaded, hasMap, pixmap>> /\ UpdateUIState
  /\ UNCHANGED <<diskVars, loads, events, paths, counter, worker, posted, joining, overlap>>

-----------------------------------------------------------------------------
(* The worker.                                                              *)

(* Prepare asks CPathResolver for the file.                                 *)
AskPath ==
  /\ worker.at = "started"
  /\ worker' = [worker EXCEPT !.at = "working", !.level = paths]
  /\ UNCHANGED <<diskVars, loads, events, paths, viewVars, op, counter, posted, joining,
                 stopVars, overlap>>

(* The thread's last act: invokeMethod queues the result for the UI.        *)
Post(version) ==
  /\ posted' = Append(posted, [kind |-> worker.kind, id |-> worker.id,
                               level |-> worker.level, version |-> version])
  /\ worker' = [worker EXCEPT !.at = "posted"]
  /\ UNCHANGED <<loads, events, paths, viewVars, op, counter, joining, stopVars, overlap>>

(* RunBake: a new map, one that failed after the file was opened, or none;  *)
(* with or without a new image, whose thread may fail on its own.           *)
FinishBake ==
  /\ worker.at = "working" /\ worker.kind = "bake" /\ worker.level # NoLevel
  /\ \E m \in {maps[worker.level], 0, bakes}, i \in {images[worker.level], 0, bakes} :
       /\ maps' = [maps EXCEPT ![worker.level] = m]
       /\ images' = [images EXCEPT ![worker.level] = i]
       /\ Post(IF m = bakes THEN m ELSE 0)
  /\ UNCHANGED bakes

(* LoadPreviewFromMap and LoadPreviewFromDisk, which fail without a file.   *)
FinishLoad ==
  /\ worker.at = "working" /\ worker.kind # "bake" /\ worker.level # NoLevel
  /\ \/ Post((IF worker.kind = "map" THEN maps ELSE images)[worker.level])
     \/ Post(0)
  /\ UNCHANGED diskVars

(* CPathResolver has no path to give.                                       *)
FinishNowhere ==
  /\ worker.at = "working" /\ worker.level = NoLevel
  /\ Post(0)
  /\ UNCHANGED diskVars

WorkerStep == AskPath \/ FinishBake \/ FinishLoad \/ FinishNowhere

-----------------------------------------------------------------------------
(* The event loop delivers a callback.                                      *)

MutantBakeFinished ==  (* does not look for the new files *)
  /\ ~joining /\ posted # <<>> /\ Head(posted).kind = "bake"
  /\ posted' = Tail(posted) /\ stopped' = 0
  /\ UNCHANGED <<loaded, hasMap, pixmap, worker>>
  /\ IF Head(posted).id = counter
     THEN op' = "Idle" /\ counter' = counter + 1 /\ UpdateUIState
     ELSE UNCHANGED <<op, counter, buttons>>
  /\ UNCHANGED <<diskVars, loads, events, paths, joining, cancelled, overlap>>

(* bakeFinished, then UpdateOperation, which ignores a number that is not   *)
(* the current one, then CheckPreviewAvailability.                          *)
BakeFinished ==
  /\ ~joining /\ posted # <<>> /\ Head(posted).kind = "bake"
  /\ posted' = Tail(posted) /\ stopped' = 0
  /\ UNCHANGED <<loaded, paths>>
  /\ IF Head(posted).id = counter
     THEN /\ CheckPreviewAvailability("Idle", counter + 1)
          /\ IF loaded THEN UpdateUIState
                       ELSE buttons' = Buttons("Idle", loaded, pixmap, hasMap)
     ELSE UNCHANGED <<hasMap, pixmap, buttons, opVars, cancelled>>
  /\ UNCHANGED <<diskVars, loads, events, joining, overlap>>

MutantPreviewFinished ==  (* returns early when the load failed *)
  /\ ~joining /\ posted # <<>> /\ Head(posted).kind # "bake"
  /\ posted' = Tail(posted) /\ stopped' = 0
  /\ LET r == Head(posted) IN
     /\ pixmap' = IF r.version # 0 THEN [kind |-> r.kind, level |-> r.level, version |-> r.version]
                                   ELSE NoPixmap
     /\ UNCHANGED <<loaded, hasMap, worker>>
     /\ IF r.id = counter /\ r.version # 0
        THEN op' = "Idle" /\ counter' = counter + 1 /\ UpdateUIState
        ELSE UNCHANGED <<op, counter, buttons>>
  /\ UNCHANGED <<diskVars, loads, events, paths, joining, cancelled, overlap>>

(* previewLoaded or previewLoadFailed, then UpdateOperation.  Neither looks *)
(* at the level.                                                            *)
PreviewFinished ==
  /\ ~joining /\ posted # <<>> /\ Head(posted).kind # "bake"
  /\ posted' = Tail(posted) /\ stopped' = 0
  /\ LET r == Head(posted) IN
     /\ pixmap' = IF r.version # 0 THEN [kind |-> r.kind, level |-> r.level, version |-> r.version]
                                   ELSE NoPixmap
     /\ UNCHANGED <<loaded, hasMap, worker>>
     /\ IF r.id = counter
        THEN op' = "Idle" /\ counter' = counter + 1 /\ UpdateUIState
        ELSE UNCHANGED <<op, counter, buttons>>
  /\ UNCHANGED <<diskVars, loads, events, paths, joining, cancelled, overlap>>

Deliver == BakeFinished \/ PreviewFinished

-----------------------------------------------------------------------------
(* The editor's level events.                                               *)

(* UpdateLevelState: CPathResolver recomputes its path, which may fail.     *)
UpdateLevelState(isLoaded, l) ==
  /\ loaded' = isLoaded
  /\ paths' \in {l, NoLevel}
  /\ CheckPreviewAvailability(op, counter)
  /\ UpdateUIState
  /\ UNCHANGED <<diskVars, loads, posted>>

(* OnBeginSceneClose, OnBeginNewScene, OnBeginLoad.  Idle: no need to wait. *)
LevelBegins ==
  /\ ~joining /\ op = "Idle" /\ events < MaxEvents
  /\ events' = events + 1
  /\ \E l \in Places : UpdateLevelState(FALSE, l)
  /\ overlap' = FALSE
  /\ UNCHANGED <<joining, stopped>>

MutantLevelBeginsBusy ==  (* does not wait for the worker *)
  /\ ~joining /\ op # "Idle" /\ events < MaxEvents
  /\ events' = events + 1
  /\ \E l \in Places : UpdateLevelState(FALSE, l)
  /\ overlap' = TRUE
  /\ UNCHANGED <<joining, stopped>>

(* Otherwise StopBaking, StopLoadingPreview, and JoinThread ...             *)
LevelBeginsBusy ==
  /\ ~joining /\ op # "Idle" /\ events < MaxEvents
  /\ events' = events + 1
  /\ joining' = TRUE /\ overlap' = TRUE
  /\ op' = "CancellingPreview" /\ cancelled' = TRUE /\ stopped' = counter
  /\ UNCHANGED <<loaded, hasMap, pixmap>> /\ UpdateUIState
  /\ UNCHANGED <<diskVars, loads, paths, counter, worker, posted>>

(* ... until the worker has posted its result, which stays queued.          *)
LevelBeginsJoined ==
  /\ joining /\ ~Running
  /\ joining' = FALSE
  /\ \E l \in Places : UpdateLevelState(FALSE, l)
  /\ UNCHANGED <<events, stopped, overlap>>

(* OnEndNewScene, OnEndLoad.                                                *)
LevelEnds ==
  /\ ~joining /\ ~loaded
  /\ \E l \in Levels : UpdateLevelState(TRUE, l)
  /\ overlap' = (op # "Idle")
  /\ UNCHANGED <<events, joining, stopped>>

-----------------------------------------------------------------------------
(* The constructor runs UpdateLevelState(false), whatever is open.  Earlier *)
(* sessions may have baked: what they left of a level is its version 1.     *)
Init ==
  /\ bakes \in Versions \intersect {0, 1} /\ loads = 0 /\ events = 0
  /\ maps \in [Levels -> 0 .. bakes] /\ images \in [Levels -> 0 .. bakes]
  /\ paths \in Places
  /\ loaded = FALSE /\ hasMap = FALSE /\ pixmap = NoPixmap
  /\ buttons = Buttons("Idle", FALSE, NoPixmap, FALSE)
  /\ op = "Idle" /\ counter = 0 /\ worker = NoWorker
  /\ posted = <<>> /\ joining = FALSE /\ overlap = FALSE
  /\ cancelled = FALSE /\ stopped = 0

Next ==
  \/ ClickGenerate \/ ClickLoadPreview \/ ClickStop
  \/ WorkerStep \/ Deliver
  \/ LevelBegins \/ LevelBeginsBusy \/ LevelBeginsJoined \/ LevelEnds

(* The worker's thread runs, the event loop delivers, and a join returns.   *)
Spec ==
  /\ Init /\ [][Next]_vars
  /\ WF_vars(WorkerStep) /\ WF_vars(Deliver) /\ WF_vars(LevelBeginsJoined)

-----------------------------------------------------------------------------
Pixmaps  == {NoPixmap} \cup [kind : {"map", "image"}, level : Levels, version : Versions \ {0}]

(* Every variable is in the range its declaration in the code gives it.     *)
TypeOK ==
  /\ maps \in [Levels -> Versions] /\ images \in [Levels -> Versions]
  /\ paths \in Places /\ {loaded, hasMap, joining, cancelled, overlap} \subseteq BOOLEAN
  /\ pixmap \in Pixmaps
  /\ buttons \in [generate : {"off", "start", "stop"}, load : {"off", "start", "stop"}]
  /\ op \in States /\ counter \in Nat /\ stopped \in 0 .. counter
  /\ worker = NoWorker \/ worker \in [at : {"started", "working", "posted"}, kind : Kinds,
                                     id : 1 .. counter, level : Places, closed : BOOLEAN]
  /\ \A k \in DOMAIN posted :
       posted[k] \in [kind : Kinds, id : 1 .. counter, level : Places, version : Versions]

(* The window is busy exactly while one operation is on its way: its worker *)
(* runs or its callback is queued, never both, and its number is current.   *)
OneOperation ==
  /\ (op # "Idle") <=> (Running \/ posted # <<>>)
  /\ Running => posted = <<>> /\ worker.id = counter
  /\ Len(posted) <= 1
  /\ posted # <<>> => Head(posted).id = counter

(* A button that starts an operation never makes the UI thread wait for an  *)
(* earlier worker in JoinThread.                                            *)
StartNeverBlocks == "start" \in {buttons.generate, buttons.load} => ~Running

(* The flag that tells the window to log a failure instead of showing it    *)
(* speaks of the operation whose result is queued: it is set exactly when   *)
(* that operation, and no earlier one, was stopped.                         *)
OnlyStoppedIsSilent ==
  posted # <<>> => (cancelled <=> stopped = Head(posted).id)

(* A preview of anything but the map on disk comes from an image that a     *)
(* later bake did not write again: every other bake replaces it.            *)
OutdatedOnlyThroughImage ==
  op = "Idle" /\ pixmap # NoPixmap /\ pixmap.version # maps[pixmap.level] =>
    pixmap.kind = "image"

(* A level's preview is shown over another level only if the operation that *)
(* made it was unfinished when the level changed.                           *)
WrongLevelOnlyIfOverlapped ==
  loaded /\ pixmap # NoPixmap /\ pixmap.level # paths => overlap \/ paths = NoLevel

(* With a level open, nothing going on and nothing shown, a map that is     *)
(* there can be previewed, unless an image stands in for it.                *)
PreviewIsOffered ==
  op = "Idle" /\ loaded /\ pixmap = NoPixmap /\ Version(images, paths) = 0
    /\ Version(maps, paths) # 0 => buttons.load = "start"

(* CPathResolver is shared without a lock: its path changes under a running *)
(* worker only if the worker was started with no level open.                *)
PathsChangeOnlyWhenQuiet ==
  [][paths' # paths /\ Running => worker.closed]_vars

(* Every operation ends, and the window is idle again.                      *)
OperationEnds == op # "Idle" ~> op = "Idle"
=============================================================================
