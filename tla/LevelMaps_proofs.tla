-------------------------- MODULE LevelMaps_proofs --------------------------
(***************************************************************************)
(* Theorems of LevelMaps, for any levels and any number of clicks and      *)
(* level events.                                                           *)
(***************************************************************************)
EXTENDS LevelMaps, TLAPS

-----------------------------------------------------------------------------
(* The inductive invariant, in parts.                                       *)

Result(c) == [kind : Kinds, id : 1 .. c, level : Places, version : Versions]

(* At most one result is queued, and the counts stay in their bounds.       *)
QueueInv ==
  /\ bakes \in Versions /\ loads \in Nat /\ events \in Nat
  /\ posted = <<>> \/ \E r \in Result(counter) : posted = <<r>>

(* The result that is queued, if there is one.                              *)
Queued    == posted # <<>>
Delivered == Head(posted)

(* Waiting for the worker is part of an operation.                          *)
JoinInv == joining => op # "Idle"

(* A result with a version belongs to a level.                              *)
LevelInv == Queued /\ Delivered.version # 0 => Delivered.level \in Levels

(* A button offers what the state allows, and with a level open it is up to *)
(* date.                                                                    *)
ButtonsInv ==
  /\ "start" \in {buttons.generate, buttons.load} => op = "Idle"
  /\ buttons.generate = "stop" => op = "BakingMap"
  /\ buttons.load = "stop" => op = "LoadingPreview"
  /\ loaded => buttons = Buttons(op, loaded, pixmap, hasMap)

(* The cancel flag is the operation's own.                                  *)
StopInv == op # "Idle" => (cancelled <=> stopped = counter)

(* A bake is unfinished, or its result has not been delivered.              *)
Baking ==
  \/ Running /\ worker.kind = "bake"
  \/ Queued /\ Delivered.kind = "bake"

(* Between bakes, what was read from a map is what is on disk.              *)
FreshInv ==
  ~Baking =>
    /\ pixmap # NoPixmap /\ pixmap.kind = "map" => pixmap.version = maps[pixmap.level]
    /\ Queued /\ Delivered.kind = "map" /\ Delivered.version # 0 =>
         Delivered.version = maps[Delivered.level]

(* Since the last level event that met nothing unfinished, all that was     *)
(* read comes from the level that is open.                                  *)
PlaceInv ==
  loaded /\ ~overlap /\ paths # NoLevel =>
    /\ worker.at = "working" => worker.level = paths
    /\ Queued /\ Delivered.version # 0 => Delivered.level = paths
    /\ pixmap # NoPixmap => pixmap.level = paths

(* Between bakes, m_bHasMap is right where no image stands in for the map.  *)
OfferInv ==
  loaded /\ ~Baking /\ Version(images, paths) = 0 => hasMap = (Version(maps, paths) # 0)

(* A level event ends only when the worker has.                             *)
ClosedInv == Running /\ ~loaded => worker.closed

WindowInv ==
  /\ TypeOK /\ QueueInv /\ OneOperation
  /\ JoinInv /\ LevelInv /\ ButtonsInv /\ StopInv /\ FreshInv /\ PlaceInv /\ OfferInv /\ ClosedInv

-----------------------------------------------------------------------------
(* Queues of one result.                                                    *)
LEMMA Single ==
  ASSUME NEW r
  PROVE  /\ Head(<<r>>) = r /\ Tail(<<r>>) = <<>> /\ Append(<<>>, r) = <<r>>
         /\ <<r>> # <<>> /\ Len(<<r>>) = 1 /\ Len(<<>>) = 0
         /\ DOMAIN <<r>> = {1} /\ <<r>>[1] = r /\ DOMAIN <<>> = {}
  OBVIOUS

(* What UpdateUIState makes of the buttons.                                 *)
LEMMA ButtonsAre ==
  ASSUME NEW o, NEW isLoaded \in BOOLEAN, NEW pix, NEW has \in BOOLEAN
  PROVE  LET b == Buttons(o, isLoaded, pix, has) IN
         /\ b \in [generate : {"off", "start", "stop"}, load : {"off", "start", "stop"}]
         /\ b.generate = "start" <=> o = "Idle" /\ isLoaded
         /\ b.generate = "stop" <=> o = "BakingMap"
         /\ b.load = "start" <=> o = "Idle" /\ pix = NoPixmap /\ has
         /\ b.load = "stop" <=> o = "LoadingPreview"
<1>1. CASE o = "Idle"
  BY <1>1, Zenon DEF Buttons
<1>2. CASE o = "BakingMap"
  BY <1>2, Zenon DEF Buttons
<1>3. CASE o = "LoadingPreview"
  BY <1>3, Zenon DEF Buttons
<1>4. CASE o \notin {"Idle", "BakingMap", "LoadingPreview"}
  BY <1>4, Zenon DEF Buttons
<1> QED
  BY <1>1, <1>2, <1>3, <1>4

LEMMA QueueTyped ==
  ASSUME NEW q, NEW R, q = <<>> \/ \E r \in R : q = <<r>>
  PROVE  \A k \in DOMAIN q : q[k] \in R
  BY Single

LEMMA WindowInit == Init => WindowInv
<1> SUFFICES ASSUME Init PROVE WindowInv
  OBVIOUS
<1> USE LevelMapsAssumption DEF Init
<1>1. maps \in [Levels -> Versions] /\ images \in [Levels -> Versions]
  BY DEF Versions
<1>a. TypeOK
  <2>1. paths \in Places /\ {loaded, hasMap, joining, cancelled, overlap} \subseteq BOOLEAN
    BY DEF Places
  <2>2. pixmap \in Pixmaps /\ op \in States /\ counter \in Nat /\ stopped \in 0 .. counter
    BY DEF Pixmaps, States
  <2>3. buttons \in [generate : {"off", "start", "stop"}, load : {"off", "start", "stop"}]
    BY ButtonsAre
  <2>4. \A k \in DOMAIN posted : posted[k] \in Result(counter)
    BY Single
  <2> QED
    BY <1>1, <2>1, <2>2, <2>3, <2>4 DEF TypeOK, Result
<1>b. QueueInv
  BY DEF QueueInv, Versions
<1>2. OneOperation /\ JoinInv /\ LevelInv /\ StopInv
  BY DEF OneOperation, JoinInv, LevelInv, StopInv, Running, NoWorker, Queued
<1>3. ButtonsInv
  BY ButtonsAre DEF ButtonsInv
<1>4. FreshInv /\ PlaceInv /\ OfferInv /\ ClosedInv
  BY DEF FreshInv, PlaceInv, OfferInv, ClosedInv, Running, NoWorker, Queued
<1> QED
  BY <1>a, <1>b, <1>2, <1>3, <1>4 DEF WindowInv

(* An operation starts: its worker runs, nothing is queued, and its number  *)
(* is new.                                                                  *)
LEMMA ClickStarts ==
  ASSUME WindowInv, ClickGenerate \/ ClickLoadPreview
  PROVE  WindowInv'
<1> USE LevelMapsAssumption
<1>1. op = "Idle" /\ posted = <<>> /\ ~joining
  BY DEF ClickGenerate, ClickLoadPreview, WindowInv, ButtonsInv, OneOperation, JoinInv
<1>2. PICK k \in {"bake", "map"} : Launch(k, counter) /\ (bakes' # bakes => k = "bake")
  BY DEF ClickGenerate, ClickLoadPreview, diskVars
<1>3. /\ UNCHANGED <<maps, images, loaded, hasMap, pixmap, paths, posted, joining, stopped, overlap>>
      /\ bakes' \in Versions /\ loads' \in Nat /\ events' \in Nat
  BY DEF ClickGenerate, ClickLoadPreview, diskVars, WindowInv, QueueInv, Versions
<1>4. TypeOK'
  <2>1. maps' \in [Levels -> Versions] /\ images' \in [Levels -> Versions] /\ pixmap' \in Pixmaps
    BY <1>3 DEF WindowInv, TypeOK
  <2>2. paths' \in Places /\ {loaded, hasMap, joining, cancelled, overlap}' \subseteq BOOLEAN
    BY <1>2, <1>3 DEF WindowInv, TypeOK, Launch
  <2>3. op' \in States /\ counter' = counter + 1 /\ counter' \in Nat /\ stopped' \in 0 .. counter'
    BY <1>2, <1>3 DEF WindowInv, TypeOK, Launch, States
  <2>4. buttons' \in [generate : {"off", "start", "stop"}, load : {"off", "start", "stop"}]
    BY <2>2, ButtonsAre DEF UpdateUIState, ClickGenerate, ClickLoadPreview
  <2>5. worker' \in [at : {"started", "working", "posted"}, kind : Kinds, id : 1 .. counter',
                     level : Places, closed : BOOLEAN]
    BY <1>2, <2>2, <2>3 DEF Launch, Kinds, Places, WindowInv, TypeOK
  <2>6. \A n \in DOMAIN posted' : posted'[n] \in Result(counter)'
    BY <1>1, <1>3, Single
  <2> QED
    BY <2>1, <2>2, <2>3, <2>4, <2>5, <2>6 DEF TypeOK, Result
<1>5. QueueInv' /\ OneOperation' /\ JoinInv' /\ LevelInv' /\ StopInv'
  BY <1>1, <1>2, <1>3 DEF WindowInv, QueueInv, OneOperation, JoinInv, LevelInv, StopInv,
     Launch, Running, Queued, TypeOK
<1>6. ButtonsInv'
  BY <1>1, <1>2, <1>3, <1>4, ButtonsAre DEF WindowInv, ButtonsInv, ClickGenerate, ClickLoadPreview,
     UpdateUIState, TypeOK
<1>7. FreshInv'
  BY <1>1, <1>2, <1>3 DEF WindowInv, FreshInv, Launch, Running, Queued, Baking, OneOperation
<1>8. PlaceInv' /\ ClosedInv'
  BY <1>1, <1>2, <1>3 DEF WindowInv, PlaceInv, ClosedInv, Launch, Running, Queued
<1>9. OfferInv'
  BY <1>1, <1>2, <1>3 DEF WindowInv, OfferInv, Launch, Running, Queued, Baking, OneOperation, Version
<1> QED
  BY <1>4, <1>5, <1>6, <1>7, <1>8, <1>9 DEF WindowInv

(* A stop is of an operation that is under way.                             *)
LEMMA ClickStops ==
  ASSUME WindowInv, ClickStop
  PROVE  WindowInv'
<1>1. /\ op # "Idle" /\ op' \in {"CancellingBake", "CancellingPreview"}
      /\ cancelled' = TRUE /\ stopped' = counter
      /\ UNCHANGED <<maps, images, bakes, loads, events, paths, loaded, hasMap, pixmap,
                     counter, worker, posted, joining, overlap>>
  BY DEF ClickStop, WindowInv, ButtonsInv, diskVars
<1>2. buttons' = Buttons(op', loaded', pixmap', hasMap')
  BY DEF ClickStop, UpdateUIState
<1>3. TypeOK'
  <2>1. buttons' \in [generate : {"off", "start", "stop"}, load : {"off", "start", "stop"}]
    BY <1>1, <1>2, ButtonsAre DEF WindowInv, TypeOK
  <2>2. op' \in States /\ stopped' \in 0 .. counter'
    BY <1>1 DEF WindowInv, TypeOK, States
  <2> QED
    BY <1>1, <2>1, <2>2 DEF WindowInv, TypeOK
<1>4. QueueInv' /\ OneOperation' /\ JoinInv' /\ LevelInv' /\ StopInv'
  BY <1>1 DEF WindowInv, QueueInv, OneOperation, JoinInv, LevelInv, StopInv, Running, Queued,
     Delivered
<1>5. ButtonsInv'
  BY <1>1, <1>2, <1>3, ButtonsAre DEF ButtonsInv, TypeOK
<1>6. FreshInv' /\ PlaceInv' /\ OfferInv' /\ ClosedInv'
  BY <1>1 DEF WindowInv, FreshInv, PlaceInv, OfferInv, ClosedInv, Running, Queued, Delivered,
     Baking, Version
<1> QED
  BY <1>3, <1>4, <1>5, <1>6 DEF WindowInv

-----------------------------------------------------------------------------
(* The worker.                                                              *)

WorkerRecords ==
  [at : {"started", "working", "posted"}, kind : Kinds, id : 1 .. counter, level : Places,
   closed : BOOLEAN]

LEMMA WorkerAsks ==
  ASSUME WindowInv, AskPath
  PROVE  WindowInv'
<1>1. /\ worker.at = "started" /\ worker \in WorkerRecords
      /\ worker' = [worker EXCEPT !.at = "working", !.level = paths]
      /\ UNCHANGED <<maps, images, bakes, loads, events, paths, loaded, hasMap, pixmap, buttons,
                     op, counter, posted, joining, cancelled, stopped, overlap>>
  BY DEF AskPath, WindowInv, TypeOK, NoWorker, diskVars, viewVars, stopVars, WorkerRecords
<1>2. /\ worker' \in WorkerRecords /\ worker'.at = "working" /\ worker'.level = paths
      /\ worker'.kind = worker.kind /\ worker'.id = worker.id /\ worker'.closed = worker.closed
  BY <1>1 DEF WindowInv, TypeOK, WorkerRecords
<1>3. TypeOK'
  BY <1>1, <1>2 DEF WindowInv, TypeOK, WorkerRecords
<1>4. QueueInv' /\ OneOperation' /\ JoinInv' /\ LevelInv' /\ StopInv' /\ ButtonsInv'
  BY <1>1, <1>2 DEF WindowInv, QueueInv, OneOperation, JoinInv, LevelInv, StopInv, ButtonsInv,
     Running, Queued, Delivered
<1>5. FreshInv' /\ PlaceInv' /\ OfferInv' /\ ClosedInv'
  BY <1>1, <1>2 DEF WindowInv, FreshInv, PlaceInv, OfferInv, ClosedInv, OneOperation, Running,
     Queued, Delivered, Baking, Version
<1> QED
  BY <1>3, <1>4, <1>5 DEF WindowInv

(* A worker posts its result; n is the version it made or read.             *)
LEMMA WorkerPosts ==
  ASSUME WindowInv, worker.at = "working", NEW n \in Versions, Post(n),
         n # 0 => worker.level \in Levels,
         maps' \in [Levels -> Versions] /\ images' \in [Levels -> Versions], bakes' = bakes,
         worker.kind # "bake" => maps' = maps /\ images' = images,
         worker.kind = "map" /\ n # 0 => n = maps[worker.level]
  PROVE  WindowInv'
<1> DEFINE r == [kind |-> worker.kind, id |-> worker.id, level |-> worker.level, version |-> n]
<1>1. /\ worker \in WorkerRecords /\ worker' = [worker EXCEPT !.at = "posted"]
      /\ UNCHANGED <<bakes, loads, events, paths, loaded, hasMap, pixmap, buttons,
                     op, counter, joining, cancelled, stopped, overlap>>
  BY DEF Post, WindowInv, TypeOK, NoWorker, viewVars, stopVars, WorkerRecords
<1>2. Running /\ posted = <<>> /\ worker.id = counter /\ op # "Idle"
  BY DEF WindowInv, OneOperation, Running
<1>3. posted' = <<r>>
  BY <1>2, Single DEF Post
<1>4. /\ worker' \in WorkerRecords /\ worker'.at = "posted" /\ worker'.kind = worker.kind
      /\ worker'.level = worker.level
  BY <1>1 DEF WorkerRecords
<1>5. /\ posted' # <<>> /\ Len(posted') = 1 /\ Head(posted') = r
      /\ r \in Result(counter)
  BY <1>1, <1>3, Single DEF WorkerRecords, Result
<1>6. TypeOK'
  <2>1. \A k \in DOMAIN posted' : posted'[k] \in Result(counter)
    BY <1>3, <1>5, Single
  <2> QED
    BY <1>1, <1>4, <2>1 DEF WindowInv, TypeOK, WorkerRecords, Result
<1>7. QueueInv'
  BY <1>1, <1>3, <1>5 DEF WindowInv, QueueInv
<1>8. OneOperation' /\ JoinInv' /\ StopInv' /\ ButtonsInv'
  BY <1>1, <1>2, <1>4, <1>5 DEF WindowInv, OneOperation, JoinInv, StopInv, ButtonsInv, Running
<1>9. LevelInv' /\ FreshInv' /\ PlaceInv' /\ ClosedInv'
  BY <1>1, <1>2, <1>4, <1>5 DEF WindowInv, LevelInv, FreshInv, PlaceInv, ClosedInv, Running,
     Queued, Delivered, Baking
<1>10. OfferInv'
  BY <1>1, <1>2, <1>4, <1>5 DEF WindowInv, OfferInv, Running, Queued, Delivered, Baking, Version
<1> QED
  BY <1>6, <1>7, <1>8, <1>9, <1>10 DEF WindowInv

LEMMA WorkerNext ==
  ASSUME WindowInv, WorkerStep
  PROVE  WindowInv'
<1> USE DEF Places
<1>1. CASE AskPath
  BY <1>1, WorkerAsks
<1>2. CASE FinishBake
  <2>1. worker.at = "working" /\ worker.kind = "bake" /\ worker.level \in Levels
    BY <1>2 DEF FinishBake, WindowInv, TypeOK, NoWorker
  <2>2. PICK m \in {maps[worker.level], 0, bakes}, i \in {images[worker.level], 0, bakes} :
          /\ maps' = [maps EXCEPT ![worker.level] = m]
          /\ images' = [images EXCEPT ![worker.level] = i]
          /\ Post(IF m = bakes THEN m ELSE 0)
    BY <1>2 DEF FinishBake
  <2>3. m \in Versions /\ i \in Versions /\ 0 \in Versions
    BY <2>1, LevelMapsAssumption DEF WindowInv, TypeOK, QueueInv, Versions
  <2>4. maps' \in [Levels -> Versions] /\ images' \in [Levels -> Versions] /\ bakes' = bakes
    BY <1>2, <2>2, <2>3 DEF WindowInv, TypeOK, FinishBake
  <2> QED
    BY <2>1, <2>2, <2>3, <2>4, WorkerPosts
<1>3. CASE FinishLoad
  <2>1. worker.at = "working" /\ worker.kind # "bake" /\ worker.level \in Levels
    BY <1>3 DEF FinishLoad, WindowInv, TypeOK, NoWorker
  <2>2. /\ maps' = maps /\ images' = images /\ bakes' = bakes
        /\ maps \in [Levels -> Versions] /\ images \in [Levels -> Versions] /\ 0 \in Versions
    BY <1>3, LevelMapsAssumption DEF WindowInv, TypeOK, FinishLoad, diskVars, Versions
  <2>3. CASE Post((IF worker.kind = "map" THEN maps ELSE images)[worker.level])
    BY <2>1, <2>2, <2>3, WorkerPosts
  <2>4. CASE Post(0)
    BY <2>1, <2>2, <2>4, WorkerPosts
  <2> QED
    BY <1>3, <2>3, <2>4 DEF FinishLoad
<1>4. CASE FinishNowhere
  <2>1. /\ maps' = maps /\ images' = images /\ bakes' = bakes
        /\ maps \in [Levels -> Versions] /\ images \in [Levels -> Versions] /\ 0 \in Versions
    BY <1>4, LevelMapsAssumption DEF WindowInv, TypeOK, FinishNowhere, diskVars, Versions
  <2> QED
    BY <1>4, <2>1, WorkerPosts DEF FinishNowhere
<1> QED
  BY <1>1, <1>2, <1>3, <1>4 DEF WorkerStep

-----------------------------------------------------------------------------
(* CheckPreviewAvailability, after a bake or a level event: in state o,     *)
(* with n the counter, it leaves the window as it should be.  It may start  *)
(* an operation, but only with a level open and nothing unfinished.         *)
LEMMA Availability ==
  ASSUME WindowInv, NEW o \in States, NEW n \in Nat, n >= counter,
         CheckPreviewAvailability(o, n),
         loaded' \in BOOLEAN, joining' \in BOOLEAN, overlap' \in BOOLEAN, paths' \in Places,
         loads' \in Nat, events' \in Nat, UNCHANGED <<maps, images, bakes>>,
         stopped' \in 0 .. n,
         o = "Idle" => posted' = <<>> /\ ~Running /\ ~joining',
         o # "Idle" => /\ o = op /\ n = counter /\ posted' = posted /\ stopped' = stopped
                       /\ loaded' => overlap',
         Running => loaded',
         \/ buttons' = Buttons(op', loaded', pixmap', hasMap')
         \/ o = "Idle" /\ ~loaded' /\ buttons' = Buttons("Idle", FALSE, pixmap, hasMap)
  PROVE  WindowInv'
<1> DEFINE Launched == /\ loaded' /\ o = "Idle" /\ Version(images, paths') # 0
                       /\ Launch("image", n) /\ hasMap' = hasMap
           Stays    == /\ op' = o /\ counter' = n /\ worker' = worker /\ cancelled' = cancelled
<1>1. /\ pixmap' = NoPixmap /\ hasMap' \in BOOLEAN
      /\ Launched \/ (Stays /\ (loaded' => hasMap' = (Version(maps, paths') # 0)))
  BY DEF CheckPreviewAvailability, WindowInv, TypeOK
<1>2. ASSUME Launched
      PROVE  /\ op' = "LoadingPreview" /\ counter' = n + 1 /\ cancelled' = FALSE /\ loaded'
             /\ worker' \in [at : {"started", "working", "posted"}, kind : Kinds, id : 1 .. counter',
                             level : Places, closed : BOOLEAN]
             /\ worker'.at = "started" /\ worker'.kind = "image" /\ worker'.id = n + 1
             /\ posted' = <<>> /\ ~Running
  BY <1>2 DEF Launch, Kinds, Places
<1>3. /\ posted' = posted \/ posted' = <<>>
      /\ counter' \in Nat /\ counter' >= counter /\ op' \in States /\ stopped' \in 0 .. counter'
      /\ cancelled' \in BOOLEAN
  <2>1. counter \in Nat /\ cancelled \in BOOLEAN /\ op \in States
    BY DEF WindowInv, TypeOK
  <2>2. posted' = posted \/ posted' = <<>>
    OBVIOUS
  <2>3. CASE Launched
    BY <1>2, <2>1, <2>2, <2>3 DEF States
  <2>4. CASE Stays
    BY <2>1, <2>2, <2>4
  <2> QED
    BY <1>1, <2>3, <2>4
<1>4. QueueInv'
  <2>1. \A r \in Result(counter) : r \in Result(counter')
    BY <1>3 DEF Result, WindowInv, TypeOK
  <2> QED
    BY <1>3, <2>1 DEF WindowInv, QueueInv
<1>5. TypeOK'
  <2>1. \A k \in DOMAIN posted' : posted'[k] \in Result(counter')
    BY <1>4, QueueTyped DEF QueueInv
  <2>2. buttons' \in [generate : {"off", "start", "stop"}, load : {"off", "start", "stop"}]
    <3>1. loaded' \in BOOLEAN /\ hasMap' \in BOOLEAN /\ hasMap \in BOOLEAN
      BY <1>1 DEF WindowInv, TypeOK
    <3>2. CASE buttons' = Buttons(op', loaded', pixmap', hasMap')
      BY <3>1, <3>2, ButtonsAre
    <3>3. CASE buttons' = Buttons("Idle", FALSE, pixmap, hasMap)
      BY <3>1, <3>3, ButtonsAre
    <3> QED
      BY <3>2, <3>3
  <2>3. \/ worker' = NoWorker
        \/ worker' \in [at : {"started", "working", "posted"}, kind : Kinds, id : 1 .. counter',
                        level : Places, closed : BOOLEAN]
    <3>1. CASE Stays
      BY <1>3, <3>1 DEF WindowInv, TypeOK
    <3> QED
      BY <1>1, <1>2, <3>1
  <2> QED
    BY <1>1, <1>3, <2>1, <2>2, <2>3 DEF WindowInv, TypeOK, Pixmaps, Result
<1>6. OneOperation'
  <2>1. CASE Stays
    BY <1>1, <2>1, Single DEF WindowInv, OneOperation, Running
  <2>2. CASE Launched
    BY <1>2, <2>2, Single DEF OneOperation, Running
  <2> QED
    BY <1>1, <2>1, <2>2
<1>7. JoinInv' /\ LevelInv' /\ StopInv'
  <2>1. CASE Launched
    BY <1>2, <1>3, <2>1 DEF WindowInv, TypeOK, JoinInv, LevelInv, StopInv, Queued
  <2>2. CASE Stays
    <3>1. CASE o = "Idle"
      BY <2>2, <3>1 DEF JoinInv, LevelInv, StopInv, Queued
    <3>2. CASE o # "Idle"
      BY <2>2, <3>2 DEF WindowInv, JoinInv, LevelInv, StopInv, Queued, Delivered
    <3> QED
      BY <3>1, <3>2
  <2> QED
    BY <1>1, <2>1, <2>2
<1>8. ButtonsInv'
  <2>1. CASE buttons' = Buttons(op', loaded', pixmap', hasMap')
    BY <1>1, <2>1, ButtonsAre DEF ButtonsInv
  <2>2. CASE o = "Idle" /\ ~loaded' /\ buttons' = Buttons("Idle", FALSE, pixmap, hasMap)
    BY <1>1, <2>2, ButtonsAre DEF ButtonsInv, WindowInv, TypeOK
  <2> QED
    BY <2>1, <2>2
<1>9. FreshInv' /\ PlaceInv'
  BY <1>1, <1>2 DEF WindowInv, FreshInv, PlaceInv, Running, Queued, Delivered, Baking, OneOperation
<1>10. OfferInv' /\ ClosedInv'
  BY <1>1, <1>2 DEF OfferInv, ClosedInv, Running, Version
<1> QED
  BY <1>4, <1>5, <1>6, <1>7, <1>8, <1>9, <1>10 DEF WindowInv

(* The callback of a bake.                                                  *)
LEMMA BakeDelivered ==
  ASSUME WindowInv, BakeFinished
  PROVE  WindowInv'
<1>1. /\ Head(posted).id = counter /\ ~Running /\ posted' = <<>> /\ ~joining
  BY Single DEF BakeFinished, WindowInv, OneOperation, QueueInv
<1>2. /\ CheckPreviewAvailability("Idle", counter + 1)
      /\ UNCHANGED <<maps, images, bakes, loads, events, loaded, paths, joining, overlap>>
      /\ stopped' = 0
      /\ IF loaded THEN UpdateUIState ELSE buttons' = Buttons("Idle", loaded, pixmap, hasMap)
  BY <1>1 DEF BakeFinished, diskVars
<1>3. loaded \in BOOLEAN /\ joining \in BOOLEAN /\ overlap \in BOOLEAN /\ paths \in Places
      /\ loads \in Nat /\ events \in Nat /\ counter \in Nat
  BY DEF WindowInv, TypeOK, QueueInv
<1>4. \/ buttons' = Buttons(op', loaded', pixmap', hasMap')
      \/ ~loaded' /\ buttons' = Buttons("Idle", FALSE, pixmap, hasMap)
  BY <1>2, <1>3 DEF UpdateUIState
<1>5. "Idle" \in States /\ counter + 1 \in Nat /\ counter + 1 >= counter /\ 0 \in 0 .. (counter + 1)
  BY <1>3 DEF States
<1> QED
  BY <1>1, <1>2, <1>3, <1>4, <1>5, Availability

(* The callback of a preview.                                               *)
LEMMA PreviewDelivered ==
  ASSUME WindowInv, PreviewFinished
  PROVE  WindowInv'
<1> DEFINE r == Head(posted)
<1>1. PICK q \in Result(counter) : posted = <<q>>
  BY DEF PreviewFinished, WindowInv, QueueInv
<1>2. r = q /\ r.id = counter /\ ~Running /\ posted' = <<>> /\ ~joining /\ r.kind # "bake"
      /\ posted # <<>>
  BY <1>1, Single DEF PreviewFinished, WindowInv, OneOperation
<1>3. /\ pixmap' = IF r.version # 0 THEN [kind |-> r.kind, level |-> r.level, version |-> r.version]
                                   ELSE NoPixmap
      /\ op' = "Idle" /\ counter' = counter + 1 /\ stopped' = 0
      /\ buttons' = Buttons(op', loaded', pixmap', hasMap')
      /\ UNCHANGED <<maps, images, bakes, loads, events, loaded, hasMap, worker, paths, joining,
                     cancelled, overlap>>
  BY <1>2 DEF PreviewFinished, UpdateUIState, diskVars
<1>4. r.version # 0 => r.level \in Levels
  BY <1>2 DEF WindowInv, LevelInv, Queued, Delivered
<1>5. pixmap' \in Pixmaps
  BY <1>1, <1>2, <1>3, <1>4 DEF Pixmaps, Result, Kinds
<1>6. QueueInv'
  BY <1>2, <1>3 DEF WindowInv, QueueInv
<1>7. TypeOK'
  <2>1. \A k \in DOMAIN posted' : posted'[k] \in Result(counter')
    BY <1>2, Single
  <2>2. buttons' \in [generate : {"off", "start", "stop"}, load : {"off", "start", "stop"}]
    BY <1>3, ButtonsAre DEF WindowInv, TypeOK
  <2>3. /\ counter' \in Nat /\ stopped' \in 0 .. counter' /\ op' \in States
        /\ \/ worker' = NoWorker
           \/ worker' \in [at : {"started", "working", "posted"}, kind : Kinds, id : 1 .. counter',
                           level : Places, closed : BOOLEAN]
    BY <1>3 DEF WindowInv, TypeOK, States
  <2> QED
    BY <1>3, <1>5, <2>1, <2>2, <2>3 DEF WindowInv, TypeOK, Result
<1>8. OneOperation' /\ JoinInv' /\ LevelInv' /\ StopInv'
  BY <1>2, <1>3, Single DEF WindowInv, OneOperation, JoinInv, LevelInv, StopInv, Queued, Running
<1>9. ButtonsInv'
  BY <1>3, ButtonsAre DEF ButtonsInv, WindowInv, TypeOK
<1>10. FreshInv'
  <2>1. ~Baking
    BY <1>2 DEF Baking, Running, Queued, Delivered
  <2> QED
    BY <1>2, <1>3, <2>1 DEF WindowInv, FreshInv, Queued, Delivered
<1>11. PlaceInv' /\ ClosedInv'
  BY <1>2, <1>3, <1>4 DEF WindowInv, PlaceInv, ClosedInv, Running, Queued, Delivered
<1>12. OfferInv'
  BY <1>2, <1>3 DEF WindowInv, OfferInv, Baking, Running, Queued, Delivered, Version
<1> QED
  BY <1>6, <1>7, <1>8, <1>9, <1>10, <1>11, <1>12 DEF WindowInv

-----------------------------------------------------------------------------
(* Level events.                                                            *)

LEMMA LevelNext ==
  ASSUME WindowInv, LevelBegins \/ LevelBeginsJoined \/ LevelEnds
  PROVE  WindowInv'
<1>1. /\ op \in States /\ counter \in Nat /\ events \in Nat /\ stopped \in 0 .. counter
      /\ loaded \in BOOLEAN /\ joining \in BOOLEAN /\ overlap \in BOOLEAN
      /\ op = "Idle" => posted = <<>> /\ ~Running /\ ~joining
  BY DEF WindowInv, TypeOK, QueueInv, OneOperation, JoinInv
<1>2. PICK b \in BOOLEAN, l \in Places : UpdateLevelState(b, l)
  BY DEF LevelBegins, LevelBeginsJoined, LevelEnds, Places
<1>3. /\ ~joining' /\ joining' \in BOOLEAN /\ overlap' \in BOOLEAN /\ events' \in Nat /\ stopped' = stopped
      /\ op # "Idle" /\ loaded' => overlap'
      /\ Running => loaded'
  <2>1. CASE LevelBegins
    <3>1. op = "Idle" /\ ~joining /\ overlap' = FALSE /\ UNCHANGED <<joining, stopped>>
      BY <2>1 DEF LevelBegins
    <3>2. events' \in Nat
      BY <1>1, <2>1 DEF LevelBegins
    <3> QED
      BY <1>1, <3>1, <3>2
  <2>2. CASE LevelBeginsJoined
    BY <1>1, <2>2 DEF LevelBeginsJoined, UpdateLevelState
  <2>3. CASE LevelEnds
    <3>1. loaded' = TRUE /\ ~joining' /\ joining' = joining /\ events' = events /\ stopped' = stopped
      BY <1>1, <2>3 DEF LevelEnds, UpdateLevelState
    <3>2. overlap' = (op # "Idle")
      BY <2>3 DEF LevelEnds
    <3>3. overlap' \in BOOLEAN
      BY <3>2, Zenon
    <3> QED
      BY <1>1, <3>1, <3>2, <3>3
  <2> QED
    BY <2>1, <2>2, <2>3
<1>4. /\ loaded' = b /\ paths' \in Places /\ CheckPreviewAvailability(op, counter)
      /\ buttons' = Buttons(op', loaded', pixmap', hasMap')
      /\ UNCHANGED <<maps, images, bakes, loads, posted>>
  BY <1>2 DEF UpdateLevelState, UpdateUIState, Places, diskVars
<1>5. loads' \in Nat
  BY <1>4 DEF WindowInv, QueueInv
<1>6. /\ op = "Idle" => posted' = <<>> /\ ~Running /\ ~joining'
      /\ op # "Idle" => /\ op = op /\ counter = counter /\ posted' = posted /\ stopped' = stopped
                        /\ loaded' => overlap'
      /\ counter >= counter /\ stopped' \in 0 .. counter
  BY <1>1, <1>3, <1>4
<1>7. loaded' \in BOOLEAN /\ joining' \in BOOLEAN
  BY <1>3, <1>4
<1> QED
  BY <1>1, <1>3, <1>4, <1>5, <1>6, <1>7, Availability

(* The UI thread begins to wait.                                            *)
LEMMA JoinBegins ==
  ASSUME WindowInv, LevelBeginsBusy
  PROVE  WindowInv'
<1>1. /\ op # "Idle" /\ op' = "CancellingPreview" /\ joining' = TRUE /\ overlap' = TRUE
      /\ cancelled' = TRUE /\ stopped' = counter /\ events' = events + 1
      /\ buttons' = Buttons(op', loaded', pixmap', hasMap')
      /\ UNCHANGED <<maps, images, bakes, loads, paths, loaded, hasMap, pixmap, counter, worker,
                     posted>>
  BY DEF LevelBeginsBusy, UpdateUIState, diskVars
<1>2. TypeOK'
  <2>1. buttons' \in [generate : {"off", "start", "stop"}, load : {"off", "start", "stop"}]
    BY <1>1, ButtonsAre DEF WindowInv, TypeOK
  <2>2. op' \in States /\ stopped' \in 0 .. counter'
    BY <1>1 DEF WindowInv, TypeOK, States
  <2> QED
    BY <1>1, <2>1, <2>2 DEF WindowInv, TypeOK
<1>3. QueueInv' /\ OneOperation' /\ JoinInv' /\ LevelInv' /\ StopInv'
  BY <1>1 DEF WindowInv, QueueInv, OneOperation, JoinInv, LevelInv, StopInv, Running, Queued,
     Delivered
<1>4. ButtonsInv'
  BY <1>1, ButtonsAre DEF ButtonsInv, WindowInv, TypeOK
<1>5. FreshInv' /\ PlaceInv' /\ OfferInv' /\ ClosedInv'
  BY <1>1 DEF WindowInv, FreshInv, PlaceInv, OfferInv, ClosedInv, Running, Queued, Delivered,
     Baking, Version
<1> QED
  BY <1>2, <1>3, <1>4, <1>5 DEF WindowInv

LEMMA WindowNext == WindowInv /\ [Next]_vars => WindowInv'
<1> SUFFICES ASSUME WindowInv, [Next]_vars PROVE WindowInv'
  OBVIOUS
<1>1. CASE UNCHANGED vars
  BY <1>1 DEF vars, diskVars, viewVars, opVars, stopVars, WindowInv, TypeOK, QueueInv, OneOperation,
     JoinInv, LevelInv, ButtonsInv, StopInv, FreshInv, PlaceInv, OfferInv, ClosedInv, Running,
     Queued, Delivered, Baking, Version
<1> QED
  BY <1>1, ClickStarts, ClickStops, WorkerNext, BakeDelivered, PreviewDelivered, LevelNext, JoinBegins
  DEF Next, Deliver

(* The invariant holds throughout every behaviour of the window.            *)
THEOREM WindowInvariant == Spec => []WindowInv
  BY WindowInit, WindowNext, PTL DEF Spec

-----------------------------------------------------------------------------
(* What follows from it.                                                    *)

(* Every variable stays in the range its declaration gives it.              *)
THEOREM WindowTyped == Spec => []TypeOK
<1>1. WindowInv => TypeOK
  BY DEF WindowInv
<1> QED
  BY <1>1, WindowInvariant, PTL

(* The window is busy exactly while one operation is on its way, and its    *)
(* number is the current one: UpdateOperation never ignores a result.       *)
THEOREM OneAtATime == Spec => []OneOperation
<1>1. WindowInv => OneOperation
  BY DEF WindowInv
<1> QED
  BY <1>1, WindowInvariant, PTL

(* The join that StartOperation does first never waits.                     *)
THEOREM StartsAtOnce == Spec => []StartNeverBlocks
<1>1. WindowInv => StartNeverBlocks
  BY DEF WindowInv, ButtonsInv, OneOperation, StartNeverBlocks
<1> QED
  BY <1>1, WindowInvariant, PTL

(* The cancel flag a callback reads is that of its own operation.           *)
THEOREM SilenceIsMeant == Spec => []OnlyStoppedIsSilent
<1>1. WindowInv => OnlyStoppedIsSilent
  BY DEF WindowInv, OneOperation, StopInv, OnlyStoppedIsSilent
<1> QED
  BY <1>1, WindowInvariant, PTL

(* A preview read from a map is always the map on disk, once the window is  *)
(* idle.                                                                    *)
THEOREM MapsAreCurrent == Spec => []OutdatedOnlyThroughImage
<1>1. WindowInv => OutdatedOnlyThroughImage
  <2> SUFFICES ASSUME WindowInv, op = "Idle", pixmap # NoPixmap, pixmap.kind # "image"
               PROVE  pixmap.version = maps[pixmap.level]
    BY DEF OutdatedOnlyThroughImage
  <2>1. ~Baking
    BY DEF WindowInv, OneOperation, Baking, Queued
  <2>2. pixmap.kind = "map"
    BY DEF WindowInv, TypeOK, Pixmaps
  <2> QED
    BY <2>1, <2>2 DEF WindowInv, FreshInv
<1> QED
  BY <1>1, WindowInvariant, PTL

(* A preview of another level than the one open was on its way when the     *)
(* levels changed.                                                          *)
THEOREM MisplacedIsOverlapped == Spec => []WrongLevelOnlyIfOverlapped
<1>1. WindowInv => WrongLevelOnlyIfOverlapped
  BY DEF WindowInv, PlaceInv, WrongLevelOnlyIfOverlapped
<1> QED
  BY <1>1, WindowInvariant, PTL

(* The window offers to preview a map that is there.                        *)
THEOREM OfferIsMade == Spec => []PreviewIsOffered
<1>1. WindowInv => PreviewIsOffered
  <2> SUFFICES ASSUME WindowInv, op = "Idle", loaded, pixmap = NoPixmap,
                      Version(images, paths) = 0, Version(maps, paths) # 0
               PROVE  buttons.load = "start"
    BY DEF PreviewIsOffered
  <2>1. ~Baking
    BY DEF WindowInv, OneOperation, Baking, Queued
  <2>2. hasMap
    BY <2>1 DEF WindowInv, OfferInv, TypeOK
  <2>3. buttons = Buttons(op, loaded, pixmap, hasMap)
    BY DEF WindowInv, ButtonsInv
  <2>4. ASSUME hasMap
        PROVE  Buttons("Idle", loaded, NoPixmap, hasMap).load = "start"
    BY <2>4, Zenon DEF Buttons
  <2> QED
    BY <2>2, <2>3, <2>4
<1> QED
  BY <1>1, WindowInvariant, PTL

(* CPathResolver changes under a running worker only if the worker was      *)
(* started with no level open.                                              *)
THEOREM PathsAreQuiet == Spec => PathsChangeOnlyWhenQuiet
<1>1. WindowInv /\ [Next]_vars => [paths' # paths /\ Running => worker.closed]_vars
  <2> SUFFICES ASSUME WindowInv, Next, paths' # paths, Running
               PROVE  worker.closed
    OBVIOUS
  <2>1. op # "Idle"
    BY DEF WindowInv, OneOperation
  <2>2. LevelEnds
    BY <2>1 DEF Next, WorkerStep, Deliver, ClickGenerate, ClickLoadPreview, ClickStop, AskPath,
       FinishBake, FinishLoad, FinishNowhere, Post, BakeFinished, PreviewFinished, LevelBegins,
       LevelBeginsBusy, LevelBeginsJoined
  <2> QED
    BY <2>2 DEF LevelEnds, WindowInv, ClosedInv
<1> QED
  BY <1>1, WindowInvariant, PTL DEF Spec, PathsChangeOnlyWhenQuiet
=============================================================================
