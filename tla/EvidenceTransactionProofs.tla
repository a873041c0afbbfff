--------------------- MODULE EvidenceTransactionProofs ---------------------
(***************************************************************************)
(* The safety of EvidenceTransaction for any number of captures, crashes   *)
(* and other programs' files: what is under the canonical name is a whole  *)
(* bundle, what was there before a capture survives it, a failed capture   *)
(* leaves no file of its own that it could delete, a file of another       *)
(* program is lost in two ways only, and what is published is what         *)
(* AtomicPublication promises.                                             *)
(***************************************************************************)
EXTENDS EvidenceTransaction, SequenceTheorems, TLAPS

(* The capture is past the collision check, which found nothing. *)
Staging == {"prepare", "open", "preflight", "acquire", "acquired", "finish",
            "flush", "map", "mapFlush", "hash", "hashFlush", "promoteMap",
            "promoteHash", "promoteRaw"}

(* What the capture has under each name when it reaches a call. *)
Staged ==
  /\ pc \in {"preflight", "acquire", "acquired", "finish", "flush"} =>
       fs["rawPartial"] = Mine(FALSE)
  /\ pc \in {"map", "mapFlush", "hash", "hashFlush", "promoteMap",
             "promoteHash", "promoteRaw"} => fs["rawPartial"] = Mine(TRUE)
  /\ pc = "mapFlush" => fs["mapPartial"] = Mine(FALSE)
  /\ pc \in {"hash", "hashFlush", "promoteMap"} =>
       fs["mapPartial"] = Mine(TRUE)
  /\ pc = "hashFlush" => fs["hashPartial"] = Mine(FALSE)
  /\ pc \in {"promoteMap", "promoteHash"} => fs["hashPartial"] = Mine(TRUE)
  /\ pc \in {"promoteHash", "promoteRaw"} => fs["mapFinal"] = Mine(TRUE)
  /\ pc = "promoteRaw" => fs["hashFinal"] = Mine(TRUE)

(* No image is published as long as files of this capture may go. *)
Unpublished ==
  /\ pc \in Staging => fs["rawFinal"] \notin Evidence /\ todo = <<>>
  /\ todo # <<>> => fs["rawFinal"] \notin Evidence /\ pc = "cleanup"

(* A capture past its collision check began where nothing was. *)
Vacant ==
  /\ pc \in {"check", "cleanup"} => \A p \in existed : Exists(p)
  /\ pc \in Staging \/ todo # <<>> \/ pc = "return" => existed = {}

Numbered == pc # "idle" => session \in 1..MaxSessions

Orderly == TypeOK /\ Numbered /\ Staged /\ Unpublished /\ ImageImpliesBundle
           /\ Vacant

LEMMA MineType ==
  ASSUME session \in 1..MaxSessions, degraded \in BOOLEAN, NEW d \in BOOLEAN
  PROVE  Mine(d) \in Evidence
BY DEF Mine, Evidence

LEMMA TodoFacts ==
  /\ <<>> \in Seq(Paths)
  /\ <<"rawPartial">> \in Seq(Paths)
  /\ RemoveStagingFiles \in Seq(Paths)
  /\ RemoveStagingFiles \o RemoveFinalizedSidecars \in Seq(Paths)
  /\ <<"mapPartial">> \o RemoveStagingFiles \in Seq(Paths)
  /\ <<"hashPartial">> \o RemoveStagingFiles \in Seq(Paths)
<1>1. /\ "rawPartial" \in Paths /\ "mapPartial" \in Paths
      /\ "hashPartial" \in Paths /\ "mapFinal" \in Paths
      /\ "hashFinal" \in Paths
  BY DEF Paths
<1>2. /\ RemoveStagingFiles \in Seq(Paths)
      /\ RemoveFinalizedSidecars \in Seq(Paths)
      /\ <<"mapPartial">> \in Seq(Paths) /\ <<"hashPartial">> \in Seq(Paths)
      /\ <<"rawPartial">> \in Seq(Paths) /\ <<>> \in Seq(Paths)
  BY <1>1 DEF RemoveStagingFiles, RemoveFinalizedSidecars
<1> QED BY <1>2, ConcatProperties

(* A failing call gives up with the list of files to delete and touches    *)
(* nothing else.                                                           *)
LEMMA AbandonOrderly ==
  ASSUME Orderly, NEW files \in Seq(Paths), NEW how \in {"failed", "asks"},
         Abandon(files, how), pc \in Staging \/ files = <<>>, pc # "idle",
         UNCHANGED <<fs, undeleted, scene, cancelled, outcome>>,
         degraded' \in BOOLEAN, pc = "check" \/ pc \in Staging
  PROVE  Orderly'
<1>1. TypeOK'
  BY DEF Orderly, TypeOK, Abandon, scene
<1>2. Numbered' /\ Staged' /\ ImageImpliesBundle'
  BY DEF Orderly, Abandon, Numbered, Staged, ImageImpliesBundle, scene
<1>3. Unpublished'
  BY DEF Orderly, Abandon, Unpublished, Staging
<1>4. \A p \in existed' : Exists(p)'
  BY DEF Orderly, Vacant, Exists, scene
<1>5. Vacant'
  BY <1>4 DEF Orderly, Abandon, Vacant, Staging, scene
<1> QED BY <1>1, <1>2, <1>3, <1>5 DEF Orderly

(* A call that succeeds without changing a file. *)
LEMMA GotoOrderly ==
  ASSUME Orderly, NEW label, Goto(label),
         UNCHANGED <<fs, undeleted, scene, degraded, cancelled, outcome>>,
         \/ pc = "check" /\ label = "prepare" /\ ~HasAnyCollision
         \/ pc = "prepare" /\ label = "open"
         \/ pc = "preflight" /\ label = "acquire"
         \/ pc = "acquire" /\ label = "acquired"
         \/ pc = "finish" /\ label = "flush"
  PROVE  Orderly'
<1>1. TypeOK'
  BY DEF Orderly, TypeOK, Goto, scene
<1>2. Numbered' /\ Staged' /\ ImageImpliesBundle'
  BY DEF Orderly, Goto, Numbered, Staged, ImageImpliesBundle, scene, Mine
<1>3. Unpublished' /\ Vacant'
  <2>1. pc = "check" => todo = <<>>
    BY DEF Orderly, Unpublished
  <2>2. CASE pc = "check"
    <3>1. fs["rawFinal"] = Absent /\ existed = {}
      BY <2>2 DEF HasAnyCollision, Exists, Paths, Orderly, TypeOK, Vacant
    <3> QED BY <2>1, <2>2, <3>1, NamesAssumption
            DEF Goto, Unpublished, Vacant, scene, Staging
  <2>3. CASE pc # "check"
    BY <2>3 DEF Orderly, Goto, Unpublished, Vacant, Staging, scene
  <2> QED BY <2>2, <2>3
<1> QED BY <1>1, <1>2, <1>3 DEF Orderly

LEMMA OpenOrderly == ASSUME Orderly, Open PROVE Orderly'
<1>1. pc = "open" /\ TypeOK /\ session \in 1..MaxSessions /\ todo = <<>>
  BY DEF Open, Orderly, Numbered, Unpublished, Staging
<1>2. CASE Abandon(<<>>, "failed") /\ UNCHANGED fs
  BY <1>1, <1>2, TodoFacts, AbandonOrderly DEF Open, Orderly, TypeOK, Staging
<1>3. CASE fs' = [fs EXCEPT !["rawPartial"] = Mine(FALSE)] /\ Goto("preflight")
  <2>1. Mine(FALSE) \in Evidence /\ "rawPartial" \in Paths
    BY <1>1, MineType DEF TypeOK, Paths
  <2>2. TypeOK'
    BY <1>1, <1>3, <2>1 DEF Open, TypeOK, Goto, scene
  <2>3. /\ fs'["rawPartial"] = Mine(FALSE) /\ Mine(FALSE)' = Mine(FALSE)
        /\ fs'["rawFinal"] = fs["rawFinal"]
        /\ fs'["mapFinal"] = fs["mapFinal"]
        /\ fs'["hashFinal"] = fs["hashFinal"]
    BY <1>1, <1>3, <2>1 DEF Open, TypeOK, Paths, Mine, scene
  <2>4. Numbered' /\ Staged' /\ ImageImpliesBundle'
    BY <1>1, <1>3, <2>3 DEF Open, Orderly, Goto, Numbered, Staged, scene,
       ImageImpliesBundle
  <2>5. Unpublished' /\ Vacant'
    BY <1>1, <1>3, <2>3 DEF Open, Orderly, Goto, Unpublished, Vacant, Staging,
       scene
  <2> QED BY <2>2, <2>4, <2>5 DEF Orderly
<1> QED BY <1>2, <1>3 DEF Open

(* The image is closed with what the summary says, or flushed. *)
LEMMA ImageOrderly == ASSUME Orderly, Acquired \/ Flush PROVE Orderly'
<1>1. TypeOK /\ session \in 1..MaxSessions /\ todo = <<>>
      /\ fs["rawPartial"] = Mine(FALSE) /\ "rawPartial" \in Paths
      /\ pc \in {"acquired", "flush"} /\ degraded' \in BOOLEAN
  BY DEF Acquired, Flush, Orderly, Numbered, Staged, Unpublished, Staging,
         TypeOK, Paths
<1>2. ASSUME NEW how \in {"failed", "asks"}, Abandon(RemoveStagingFiles, how),
             UNCHANGED fs
      PROVE  Orderly'
  BY <1>1, <1>2, TodoFacts, AbandonOrderly DEF Acquired, Flush, Staging
<1>3. ASSUME NEW file \in Evidence, fs' = [fs EXCEPT !["rawPartial"] = file],
             \/ pc = "acquired" /\ file = Mine(FALSE)' /\ Goto("finish")
             \/ pc = "flush" /\ file = Mine(TRUE)' /\ Goto("map")
      PROVE  Orderly'
  <2>1. TypeOK'
    <3>1. fs' \in [Paths -> {Absent, Foreign} \cup Evidence]
      BY <1>1, <1>3 DEF TypeOK
    <3> QED BY <1>1, <1>3, <3>1 DEF TypeOK, Acquired, Flush, Goto, scene
  <2>2. /\ fs'["rawPartial"] = file
        /\ fs'["rawFinal"] = fs["rawFinal"]
        /\ fs'["mapFinal"] = fs["mapFinal"]
        /\ fs'["hashFinal"] = fs["hashFinal"]
    BY <1>1, <1>3 DEF TypeOK, Paths
  <2>3. Numbered' /\ Staged' /\ ImageImpliesBundle'
    BY <1>1, <1>3, <2>2 DEF Acquired, Flush, Orderly, Goto, Numbered, Staged,
       scene, ImageImpliesBundle
  <2>4. Unpublished' /\ Vacant'
    BY <1>1, <1>3, <2>2 DEF Acquired, Flush, Orderly, Goto, Unpublished,
       Vacant, Staging, scene
  <2> QED BY <2>1, <2>3, <2>4 DEF Orderly
<1>4. CASE Acquired
  <2>1. Telling(fs["rawPartial"], degraded') = Mine(FALSE)'
        /\ Mine(FALSE)' \in Evidence
    BY <1>1, <1>4 DEF Acquired, Telling, Mine, scene, Evidence
  <2> QED BY <1>1, <1>2, <1>3, <1>4, <2>1 DEF Acquired
<1>5. CASE Flush
  <2>1. Flushed(fs["rawPartial"]) = Mine(TRUE)' /\ Mine(TRUE)' \in Evidence
    BY <1>1, <1>5 DEF Flush, Flushed, Mine, scene, Evidence, TypeOK
  <2> QED BY <1>1, <1>2, <1>3, <1>5, <2>1 DEF Flush
<1> QED BY <1>4, <1>5

LEMMA SidecarOrderly ==
  ASSUME Orderly, WriteMapJson \/ WriteSha256Sidecar PROVE Orderly'
<1> DEFINE path == IF pc \in {"map", "mapFlush"} THEN "mapPartial"
                   ELSE "hashPartial"
<1>1. /\ TypeOK /\ session \in 1..MaxSessions /\ todo = <<>>
      /\ pc \in {"map", "mapFlush", "hash", "hashFlush"}
      /\ path \in Paths /\ degraded \in BOOLEAN
      /\ UNCHANGED <<undeleted, scene, degraded, cancelled, outcome>>
  BY DEF WriteMapJson, WriteSha256Sidecar, CreateSidecar, FlushSidecar,
         Orderly, Numbered, Unpublished, Staging, TypeOK, Paths
<1>2. ASSUME NEW files \in Seq(Paths), Abandon(files, "failed"), UNCHANGED fs
      PROVE  Orderly'
  BY <1>1, <1>2, AbandonOrderly DEF Staging
<1>3. ASSUME NEW d \in BOOLEAN, fs' = [fs EXCEPT ![path] = Mine(d)],
             \/ pc = "map" /\ ~d /\ Goto("mapFlush")
             \/ pc = "mapFlush" /\ d /\ Goto("hash")
             \/ pc = "hash" /\ ~d /\ Goto("hashFlush")
             \/ pc = "hashFlush" /\ d /\ Goto("promoteMap")
      PROVE  Orderly'
  <2>1. Mine(d) \in Evidence /\ Mine(d)' = Mine(d)
        /\ Mine(TRUE)' = Mine(TRUE) /\ Mine(FALSE)' = Mine(FALSE)
    BY <1>1, MineType DEF Mine, scene
  <2>2. TypeOK'
    <3>1. fs' \in [Paths -> {Absent, Foreign} \cup Evidence]
      BY <1>1, <1>3, <2>1 DEF TypeOK
    <3> QED BY <1>1, <1>3, <3>1, ZenonT(30) DEF TypeOK, Goto, scene
  <2>3. /\ fs'[path] = Mine(d)
        /\ \A p \in Paths : p # path => fs'[p] = fs[p]
    BY <1>1, <1>3 DEF TypeOK
  <2>4. /\ fs'["rawFinal"] = fs["rawFinal"]
        /\ fs'["rawPartial"] = fs["rawPartial"]
        /\ fs'["mapFinal"] = fs["mapFinal"]
        /\ fs'["hashFinal"] = fs["hashFinal"]
        /\ pc \in {"hash", "hashFlush"} => fs'["mapPartial"] = fs["mapPartial"]
    BY <2>3 DEF Paths
  <2>5. Numbered' /\ Staged' /\ ImageImpliesBundle'
    BY <1>1, <1>3, <2>1, <2>3, <2>4 DEF Orderly, Goto, Numbered, Staged, scene,
       ImageImpliesBundle
  <2>6. Unpublished' /\ Vacant'
    BY <1>1, <1>3, <2>4 DEF Orderly, Goto, Unpublished, Vacant, Staging, scene
  <2> QED BY <2>2, <2>5, <2>6 DEF Orderly
<1>4. pc \in {"mapFlush", "hashFlush"} => Flushed(fs[path]) = Mine(TRUE)
  <2>1. pc \in {"mapFlush", "hashFlush"} => fs[path] = Mine(FALSE)
    BY DEF Orderly, Staged
  <2>2. Flushed(Mine(FALSE)) = Mine(TRUE)
    BY DEF Flushed, Mine
  <2> QED BY <2>1, <2>2
<1> QED BY <1>1, <1>2, <1>3, <1>4, TodoFacts
        DEF WriteMapJson, WriteSha256Sidecar, CreateSidecar, FlushSidecar

LEMMA PromoteOrderly ==
  ASSUME Orderly, PromoteMap \/ PromoteHash \/ PromoteRaw PROVE Orderly'
<1>1. /\ TypeOK /\ session \in 1..MaxSessions /\ todo = <<>>
      /\ pc \in {"promoteMap", "promoteHash", "promoteRaw"}
      /\ degraded \in BOOLEAN
      /\ UNCHANGED <<undeleted, scene, degraded, cancelled, outcome>>
  BY DEF PromoteMap, PromoteHash, PromoteRaw, Promote, Orderly, Numbered,
         Unpublished, Staging, TypeOK
<1>2. ASSUME NEW files \in Seq(Paths), Abandon(files, "failed"), UNCHANGED fs
      PROVE  Orderly'
  BY <1>1, <1>2, AbandonOrderly DEF Staging
<1>3. ASSUME NEW from \in Paths, NEW to \in Paths, Move(from, to),
             \/ /\ pc = "promoteMap" /\ from = "mapPartial" /\ to = "mapFinal"
                /\ Goto("promoteHash")
             \/ /\ pc = "promoteHash" /\ from = "hashPartial"
                /\ to = "hashFinal" /\ Goto("promoteRaw")
             \/ /\ pc = "promoteRaw" /\ from = "rawPartial"
                /\ to = "rawFinal" /\ Goto("return")
      PROVE  Orderly'
  <2>1. Mine(TRUE) \in Evidence /\ Mine(TRUE)' = Mine(TRUE)
        /\ Mine(TRUE).durable
    BY <1>1, MineType DEF Mine, scene
  <2>2. fs[from] = Mine(TRUE) /\ from # to
    BY <1>3 DEF Orderly, Staged
  <2>3. /\ fs'[to] = Mine(TRUE)
        /\ \A p \in Paths : p # from /\ p # to => fs'[p] = fs[p]
    BY <1>1, <1>3, <2>2 DEF TypeOK, Move
  <2>4. TypeOK'
    <3>1. fs' \in [Paths -> {Absent, Foreign} \cup Evidence]
      BY <1>1, <1>3, <2>1, <2>2 DEF TypeOK, Move
    <3> QED BY <1>1, <1>3, <3>1 DEF TypeOK, Goto, scene
  <2>5. /\ pc # "promoteRaw" => /\ fs'["rawFinal"] = fs["rawFinal"]
                                /\ fs'["rawPartial"] = fs["rawPartial"]
        /\ pc # "promoteMap" => fs'["mapFinal"] = fs["mapFinal"]
        /\ pc = "promoteMap" => fs'["hashPartial"] = fs["hashPartial"]
        /\ pc = "promoteRaw" => fs'["hashFinal"] = fs["hashFinal"]
    BY <1>1, <1>3, <2>3 DEF Paths
  <2>6. Numbered' /\ Staged'
    BY <1>1, <1>3, <2>1, <2>3, <2>5 DEF Orderly, Goto, Numbered, Staged, scene
  <2>7. ImageImpliesBundle'
    <3>1. CASE pc = "promoteRaw"
      BY <1>3, <2>1, <2>3, <2>5, <3>1 DEF Orderly, Staged, ImageImpliesBundle
    <3>2. CASE pc # "promoteRaw"
      BY <1>1, <2>5, <3>2
         DEF Orderly, Unpublished, Staging, ImageImpliesBundle
    <3> QED BY <3>1, <3>2
  <2>8. Unpublished' /\ Vacant'
    BY <1>1, <1>3, <2>5 DEF Orderly, Goto, Unpublished, Vacant, Staging, scene
  <2> QED BY <2>4, <2>6, <2>7, <2>8 DEF Orderly
<1> QED BY <1>1, <1>2, <1>3, TodoFacts
        DEF PromoteMap, PromoteHash, PromoteRaw, Promote, Paths

LEMMA DeleteOrderly == ASSUME Orderly, Delete PROVE Orderly'
<1>1. /\ TypeOK /\ session \in 1..MaxSessions /\ pc = "cleanup"
      /\ todo # <<>> /\ todo \in Seq(Paths) /\ existed = {}
      /\ fs["rawFinal"] \notin Evidence
  BY DEF Delete, Orderly, Numbered, Unpublished, Vacant, TypeOK
<1>2. Head(todo) \in Paths /\ Tail(todo) \in Seq(Paths)
  BY <1>1, HeadTailProperties
<1>3. \/ fs' = fs
      \/ fs' = [fs EXCEPT ![Head(todo)] = Absent]
  BY DEF Delete
<1>4. /\ fs' \in [Paths -> {Absent, Foreign} \cup Evidence]
      /\ fs'["rawFinal"] \notin Evidence
  BY <1>1, <1>2, <1>3, NamesAssumption DEF TypeOK, Paths
<1>5. TypeOK'
  BY <1>1, <1>2, <1>4 DEF Delete, TypeOK, scene
<1> QED BY <1>1, <1>4, <1>5
        DEF Delete, Orderly, Numbered, Staged, Unpublished, Vacant, Staging,
            ImageImpliesBundle, scene

(* The file another program creates takes no name that is in use. *)
LEMMA IntrudeOrderly == ASSUME Orderly, Intrude PROVE Orderly'
<1>1. PICK p \in Paths : ~Exists(p) /\ fs' = [fs EXCEPT ![p] = Foreign]
  BY DEF Intrude
<1>2. TypeOK /\ (pc # "idle" => session \in 1..MaxSessions)
  BY DEF Orderly, Numbered
<1>3. TypeOK'
  <2>1. fs' \in [Paths -> {Absent, Foreign} \cup Evidence]
    BY <1>1, <1>2 DEF TypeOK
  <2> QED BY <1>2, <2>1, BoundsAssumption DEF TypeOK, Intrude
<1>4. ASSUME NEW q \in Paths
      PROVE  /\ Exists(q) => fs'[q] = fs[q]
             /\ fs[q] \notin Evidence => fs'[q] \notin Evidence
  BY <1>1, <1>2, NamesAssumption DEF TypeOK, Exists
<1>5. /\ Mine(TRUE)' = Mine(TRUE) /\ Mine(FALSE)' = Mine(FALSE)
      /\ UNCHANGED <<pc, session, todo, existed>>
  BY DEF Intrude, Mine
<1>6. pc # "idle" =>
        /\ Mine(TRUE) \in Evidence /\ Mine(FALSE) \in Evidence
  BY <1>2, MineType DEF TypeOK
<1>7. Numbered' /\ Staged'
  BY <1>4, <1>5, <1>6, NamesAssumption
     DEF Orderly, Numbered, Staged, Exists, Paths
<1>8. ImageImpliesBundle'
  BY <1>4, NamesAssumption DEF Orderly, ImageImpliesBundle, Exists, Paths
<1>9. Unpublished' /\ Vacant'
  <2>1. "rawFinal" \in Paths /\ existed \subseteq Paths
    BY <1>2 DEF Paths, TypeOK
  <2>2. Unpublished'
    BY <1>4, <1>5, <2>1 DEF Orderly, Unpublished
  <2>3. Vacant'
    BY <1>4, <1>5, <2>1 DEF Orderly, Vacant, Exists
  <2> QED BY <2>2, <2>3
<1> QED BY <1>3, <1>7, <1>8, <1>9 DEF Orderly

LEMMA BeginOrderly == ASSUME Orderly, Begin PROVE Orderly'
<1>1. TypeOK'
  <2>1. session' \in 0..MaxSessions
    BY BoundsAssumption DEF Begin, Orderly, TypeOK
  <2>2. format' \in {"raw", "container"} /\ existed' \subseteq Paths
    BY BoundsAssumption DEF Begin
  <2>3. fs' \in [Paths -> {Absent, Foreign} \cup Evidence]
        /\ cancelled' \in BOOLEAN /\ degraded' \in BOOLEAN
    BY DEF Begin, Orderly, TypeOK
  <2> QED BY <2>1, <2>2, <2>3 DEF Begin, Orderly, TypeOK
<1>2. Numbered' /\ Staged' /\ ImageImpliesBundle'
  BY BoundsAssumption
     DEF Begin, Orderly, TypeOK, Numbered, Staged, ImageImpliesBundle
<1>3. Unpublished' /\ Vacant'
  BY DEF Begin, Orderly, Unpublished, Vacant, Staging, Exists
<1> QED BY <1>1, <1>2, <1>3 DEF Orderly

(* Steps that leave the capture or end it. *)
LEMMA EndingOrderly ==
  ASSUME Orderly,
         ReturnFailure \/ ReturnSuccess \/ Crash \/ Cancel \/ Collect
  PROVE  Orderly'
<1>1. CASE ReturnFailure \/ ReturnSuccess
  <2>1. todo = <<>> /\ pc' = "idle"
    BY <1>1 DEF ReturnFailure, ReturnSuccess, Orderly, Unpublished
  <2>2. TypeOK'
    BY <1>1 DEF ReturnFailure, ReturnSuccess, Orderly, TypeOK, place, scene
  <2> QED BY <1>1, <2>1, <2>2
          DEF ReturnFailure, ReturnSuccess, Orderly, Numbered, Staged, place,
              Unpublished, Vacant, Staging, ImageImpliesBundle, scene
<1>2. CASE Crash
  <2>1. TypeOK'
    BY <1>2, TodoFacts DEF Crash, Orderly, TypeOK, scene
  <2> QED BY <1>2, <2>1
          DEF Crash, Orderly, Numbered, Staged, Unpublished, Vacant, Staging,
              ImageImpliesBundle, scene
<1>3. CASE Cancel
  <2>1. TypeOK'
    BY <1>3 DEF Cancel, Orderly, TypeOK, place, scene
  <2> QED BY <1>3, <2>1
          DEF Cancel, Orderly, Numbered, Staged, Unpublished, Vacant, Staging,
              ImageImpliesBundle, place, scene, Mine, Exists
<1>4. CASE Collect
  <2>1. todo = <<>> /\ TypeOK
    BY <1>4 DEF Collect, Orderly, Unpublished
  <2>2. TypeOK'
    BY <1>4, <2>1, BoundsAssumption DEF Collect, TypeOK
  <2>3. fs'["rawFinal"] \notin Evidence
    BY <1>4, NamesAssumption DEF Collect, Paths
  <2> QED BY <1>4, <2>1, <2>2, <2>3
          DEF Collect, Orderly, Numbered, Staged, Unpublished, Vacant, Staging,
              ImageImpliesBundle
<1> QED BY <1>1, <1>2, <1>3, <1>4

LEMMA InitOrderly == Init => Orderly
<1> SUFFICES ASSUME Init PROVE Orderly
  OBVIOUS
<1>1. /\ fs \in [Paths -> {Absent, Foreign} \cup Evidence]
      /\ fs["rawFinal"] = Absent
  BY DEF Init, Paths
<1>2. TypeOK
  <2>1. 0 \in 0..MaxSessions /\ 0 \in 0..MaxForeign
    BY BoundsAssumption
  <2>2. session \in 0..MaxSessions /\ intruders \in 0..MaxForeign
    BY <2>1 DEF Init
  <2>3. degraded \in BOOLEAN /\ cancelled \in BOOLEAN
    BY DEF Init
  <2> QED BY <1>1, <2>2, <2>3, TodoFacts DEF Init, TypeOK
<1> QED BY <1>1, <1>2, NamesAssumption
        DEF Init, Orderly, Numbered, Staged, Unpublished, Vacant, Staging,
            ImageImpliesBundle

LEMMA NextOrderly == Orderly /\ [Next]_vars => Orderly'
<1> SUFFICES ASSUME Orderly, [Next]_vars PROVE Orderly'
  OBVIOUS
<1>0. pc \in Staging \cup {"check"} => degraded \in BOOLEAN
  BY DEF Orderly, TypeOK
<1>1. CASE Check \/ Prepare \/ Preflight \/ Acquiring \/ Finish
  <2>1. /\ UNCHANGED <<fs, undeleted, scene, degraded, cancelled, outcome>>
        /\ pc \in {"check", "prepare", "preflight", "acquire", "finish"}
    BY <1>1 DEF Check, Prepare, Preflight, Acquiring, Finish
  <2>2. ASSUME NEW files \in Seq(Paths), NEW how \in {"failed", "asks"},
               Abandon(files, how), pc # "check" \/ files = <<>>
        PROVE  Orderly'
    BY <1>0, <2>1, <2>2, AbandonOrderly DEF Staging
  <2>3. CASE Check
    BY <2>1, <2>2, <2>3, TodoFacts, GotoOrderly DEF Check
  <2>4. CASE Prepare
    BY <2>1, <2>2, <2>4, TodoFacts, GotoOrderly DEF Prepare
  <2>5. CASE Preflight
    BY <2>1, <2>2, <2>5, TodoFacts, GotoOrderly DEF Preflight
  <2>6. CASE Acquiring
    BY <2>1, <2>2, <2>6, TodoFacts, GotoOrderly DEF Acquiring
  <2>7. CASE Finish
    BY <2>1, <2>2, <2>7, TodoFacts, GotoOrderly DEF Finish
  <2> QED BY <1>1, <2>3, <2>4, <2>5, <2>6, <2>7
<1>2. CASE UNCHANGED vars
  <2>1. TypeOK'
    BY <1>2 DEF Orderly, TypeOK, vars, place, scene
  <2> QED BY <1>2, <2>1
          DEF vars, place, scene, Orderly, Numbered, Staged, Unpublished,
              Vacant, Staging, ImageImpliesBundle, Mine, Exists
<1> QED BY <1>1, <1>2, BeginOrderly, OpenOrderly, ImageOrderly, SidecarOrderly,
           PromoteOrderly, DeleteOrderly, EndingOrderly, IntrudeOrderly
        DEF Next, Transaction

THEOREM OrderlyAlways == Spec => []Orderly
BY InitOrderly, NextOrderly, PTL DEF Spec

(* Every variable keeps its type, for any number of captures. *)
THEOREM TypeCorrect == Spec => []TypeOK
<1>1. Orderly => TypeOK
  BY DEF Orderly
<1> QED BY <1>1, OrderlyAlways, PTL

(* evidence_transaction.cpp:209-215: whatever crashes, intruders and       *)
(* leftovers there are, an image under its canonical name has both its     *)
(* sidecars beside it, durable and from the same capture.                  *)
THEOREM ImageNeverAlone == Spec => []ImageImpliesBundle
<1>1. Orderly => ImageImpliesBundle
  BY DEF Orderly
<1> QED BY <1>1, OrderlyAlways, PTL

(* README.md: a capture refuses to overwrite: the files it found stay as   *)
(* they are until it has returned.                                         *)
THEOREM PreexistingSafe == Spec => PreexistingUntouched
<1> DEFINE Untouched == pc # "idle" => \A p \in existed : fs'[p] = fs[p]
<1>1. Orderly /\ [Next]_vars => [Untouched]_vars
  <2> SUFFICES ASSUME Orderly, [Next]_vars, pc # "idle", NEW p \in existed
               PROVE  fs'[p] = fs[p] \/ UNCHANGED vars
    OBVIOUS
  <2>1. CASE pc \in Staging \/ pc = "return" \/ todo # <<>>
    BY <2>1 DEF Orderly, Vacant
  <2>2. CASE ~(pc \in Staging \/ pc = "return" \/ todo # <<>>)
    <3>1. pc \in {"check", "cleanup"} /\ todo = <<>> /\ TypeOK
      BY <2>2 DEF Orderly, TypeOK, Staging
    <3>2. p \in Paths /\ Exists(p)
      BY <3>1 DEF Orderly, TypeOK, Vacant
    <3>3. CASE Intrude
      BY <3>1, <3>2, <3>3 DEF Intrude, TypeOK
    <3>4. CASE ~Intrude
      BY <3>1, <3>4
         DEF Next, Begin, Transaction, Check, Prepare, Open, Preflight,
             Acquiring, Acquired, Finish, Flush, WriteMapJson,
             WriteSha256Sidecar, CreateSidecar, FlushSidecar, PromoteMap,
             PromoteHash, PromoteRaw, Delete, ReturnFailure, ReturnSuccess,
             Cancel, Crash, Collect, place
    <3> QED BY <3>3, <3>4
  <2> QED BY <2>1, <2>2
<1> QED BY <1>1, OrderlyAlways, PTL DEF Spec, PreexistingUntouched

---------------------------------------------------------------------------
(* What is left behind, and what is published.                             *)

Listed(p) == \E i \in 1..Len(todo) : todo[i] = p

(* The rollback deletes none but its own image and map, and each of them   *)
(* once; the canonical image it never deletes.                             *)
Doomed ==
  \A i \in 1..Len(todo) :
    /\ todo[i] # "rawFinal"
    /\ todo[i] \in {"rawPartial", "mapFinal"} =>
         /\ fs[todo[i]] \in Evidence
         /\ \A j \in 1..Len(todo) : todo[j] = todo[i] => j = i

(* The names under which the capture may have a file when it reaches a     *)
(* call.                                                                   *)
Written(label) ==
  CASE label \in {"check", "prepare", "open"} -> {}
    [] label \in {"preflight", "acquire", "acquired", "finish", "flush",
                  "map"} -> {"rawPartial"}
    [] label \in {"mapFlush", "hash"} -> {"rawPartial", "mapPartial"}
    [] label \in {"hashFlush", "promoteMap"} -> Partials
    [] label = "promoteHash" -> {"rawPartial", "mapFinal", "hashPartial"}
    [] label = "promoteRaw" -> {"rawPartial", "mapFinal", "hashFinal"}
    [] OTHER -> Paths

(* What a failing capture leaves, or is about to delete. *)
Swept ==
  /\ \A p \in Paths : fs[p] \in Evidence => fs[p].session <= session
  /\ \A p \in Paths : Own(p) => p \in Written(pc)
  /\ pc = "cleanup" => \A p \in Paths : Own(p) =>
       \/ p \in undeleted \/ Listed(p)
       \/ p = "rawPartial" /\ format = "container"

Traced == Orderly /\ Doomed /\ Swept /\ FailureLeavesNothing

(* The lists of files a failing call hands to the rollback. *)
SidecarFirst(path) == <<path>> \o RemoveStagingFiles
Unwound == RemoveStagingFiles \o RemoveFinalizedSidecars

LEMMA Lists ==
  /\ Len(<<>>) = 0
  /\ Len(<<"rawPartial">>) = 1 /\ <<"rawPartial">>[1] = "rawPartial"
  /\ Len(RemoveStagingFiles) = 3
  /\ RemoveStagingFiles[1] = "rawPartial"
  /\ RemoveStagingFiles[2] = "mapPartial"
  /\ RemoveStagingFiles[3] = "hashPartial"
  /\ Len(Unwound) = 5
  /\ Unwound[1] = "rawPartial" /\ Unwound[2] = "mapPartial"
  /\ Unwound[3] = "hashPartial" /\ Unwound[4] = "mapFinal"
  /\ Unwound[5] = "hashFinal"
  /\ \A path \in Paths :
       /\ Len(SidecarFirst(path)) = 4
       /\ SidecarFirst(path)[1] = path
       /\ SidecarFirst(path)[2] = "rawPartial"
       /\ SidecarFirst(path)[3] = "mapPartial"
       /\ SidecarFirst(path)[4] = "hashPartial"
<1>1. /\ RemoveStagingFiles \in Seq(Paths)
      /\ RemoveFinalizedSidecars \in Seq(Paths)
      /\ \A path \in Paths : <<path>> \in Seq(Paths)
  BY TodoFacts DEF RemoveFinalizedSidecars, Paths
<1>2. /\ Len(RemoveStagingFiles) = 3
      /\ RemoveStagingFiles[1] = "rawPartial"
      /\ RemoveStagingFiles[2] = "mapPartial"
      /\ RemoveStagingFiles[3] = "hashPartial"
      /\ Len(RemoveFinalizedSidecars) = 2
      /\ RemoveFinalizedSidecars[1] = "mapFinal"
      /\ RemoveFinalizedSidecars[2] = "hashFinal"
      /\ \A path \in Paths : Len(<<path>>) = 1 /\ <<path>>[1] = path
  BY DEF RemoveStagingFiles, RemoveFinalizedSidecars
<1>3. /\ Len(Unwound) = 5
      /\ Unwound[1] = "rawPartial" /\ Unwound[2] = "mapPartial"
      /\ Unwound[3] = "hashPartial" /\ Unwound[4] = "mapFinal"
      /\ Unwound[5] = "hashFinal"
  <2> DEFINE s1 == RemoveStagingFiles
             s2 == RemoveFinalizedSidecars
  <2>1. /\ Len(Unwound) = Len(s1) + Len(s2)
        /\ \A i \in 1..Len(s1) + Len(s2) :
             Unwound[i] = IF i <= Len(s1) THEN s1[i] ELSE s2[i - Len(s1)]
    <3>1. s1 \in Seq(Paths) /\ s2 \in Seq(Paths) /\ Unwound = s1 \o s2
      BY <1>1 DEF Unwound
    <3> HIDE DEF s1, s2
    <3> QED BY <3>1, ConcatProperties
  <2>2. \A i \in 1..5 : Unwound[i] = IF i <= 3 THEN s1[i] ELSE s2[i - 3]
    BY <1>2, <2>1
  <2> QED BY <1>2, <2>1, <2>2
<1>4. ASSUME NEW path \in Paths
      PROVE  /\ Len(SidecarFirst(path)) = 4
             /\ SidecarFirst(path)[1] = path
             /\ SidecarFirst(path)[2] = "rawPartial"
             /\ SidecarFirst(path)[3] = "mapPartial"
             /\ SidecarFirst(path)[4] = "hashPartial"
  <2> DEFINE s1 == <<path>>
             s2 == RemoveStagingFiles
  <2>1. SidecarFirst(path) = s1 \o s2
    BY DEF SidecarFirst
  <2>2. s1 \in Seq(Paths) /\ s2 \in Seq(Paths)
        /\ Len(s1) = 1 /\ s1[1] = path
    BY <1>1, <1>2
  <2>3. \A i \in 1..Len(s1) + Len(s2) : SidecarFirst(path)[i] =
          IF i <= Len(s1) THEN s1[i] ELSE s2[i - Len(s1)]
    <3> HIDE DEF s1, s2
    <3>1. s1 \in Seq(Paths) /\ s2 \in Seq(Paths)
      BY <2>2
    <3>2. \A i \in 1..Len(s1) + Len(s2) : (s1 \o s2)[i] =
            IF i <= Len(s1) THEN s1[i] ELSE s2[i - Len(s1)]
      BY <3>1, ConcatProperties
    <3> QED BY <2>1, <3>2
  <2>4. Len(SidecarFirst(path)) = Len(s1) + Len(s2)
    <3> HIDE DEF s1, s2
    <3> QED BY <2>1, <2>2, ConcatProperties
  <2> HIDE DEF s1
  <2> QED BY <1>2, <2>2, <2>3, <2>4
<1>5. /\ Len(<<>>) = 0
      /\ Len(<<"rawPartial">>) = 1 /\ <<"rawPartial">>[1] = "rawPartial"
  OBVIOUS
<1> QED BY <1>2, <1>3, <1>4, <1>5

(* A call that succeeds leaves files only under names the next call knows  *)
(* of.                                                                     *)
LEMMA ForwardTraced ==
  ASSUME Traced, Orderly', todo' = <<>>, pc' \notin {"idle", "cleanup"},
         \A p \in Paths : fs'[p] \in Evidence => fs'[p].session <= session',
         \A p \in Paths : Own(p)' => p \in Written(pc)'
  PROVE  Traced'
<1>1. Doomed'
  BY Lists DEF Doomed
<1>2. Swept'
  BY DEF Swept
<1>3. FailureLeavesNothing'
  BY DEF FailureLeavesNothing
<1> QED BY <1>1, <1>2, <1>3 DEF Traced

(* A call that fails lists all of them.                                    *)
LEMMA AbandonTraced ==
  ASSUME Traced, Orderly', NEW files, NEW how, Abandon(files, how),
         UNCHANGED <<fs, undeleted, scene>>,
         \A i \in 1..Len(files) :
           /\ files[i] # "rawFinal"
           /\ files[i] \in {"rawPartial", "mapFinal"} =>
                /\ fs[files[i]] \in Evidence
                /\ \A j \in 1..Len(files) : files[j] = files[i] => j = i,
         \A p \in Written(pc) :
           \/ \E i \in 1..Len(files) : files[i] = p
           \/ p = "rawPartial" /\ format = "container"
  PROVE  Traced'
<1>1. /\ todo' = files /\ pc' = "cleanup"
      /\ \A p \in Paths : Own(p)' <=> Own(p)
      /\ UNCHANGED <<fs, undeleted, format, session>>
  BY DEF Abandon, scene, Own
<1>2. Doomed'
  BY <1>1 DEF Doomed
<1>3. Swept'
  <2>1. \A p \in Paths : Own(p)' => p \in Written(pc)
    BY <1>1 DEF Traced, Swept
  <2>2. \A p \in Paths : p \in Written(pc)'
    BY <1>1 DEF Written
  <2>3. \A p \in Written(pc) :
          Listed(p)' \/ (p = "rawPartial" /\ format' = "container")
    BY <1>1 DEF Listed
  <2> QED BY <1>1, <2>1, <2>2, <2>3 DEF Traced, Swept
<1>4. FailureLeavesNothing'
  BY <1>1 DEF FailureLeavesNothing
<1> QED BY <1>2, <1>3, <1>4 DEF Traced

(* A call that succeeds and writes, flushes or renames a file or none.     *)
LEMMA WriteTraced ==
  ASSUME Traced, Orderly', NEW label, Goto(label), pc # "idle",
         pc # "cleanup", label \notin {"idle", "cleanup"},
         UNCHANGED session,
         \A p \in Paths :
           \/ fs'[p] = fs[p] /\ (p \in Written(pc) => p \in Written(label))
           \/ fs'[p] \notin Evidence
           \/ fs'[p].session = session /\ p \in Written(label)
  PROVE  Traced'
<1>1. todo' = <<>> /\ pc' = label /\ session \in Nat
  BY BoundsAssumption DEF Goto, Traced, Orderly, Unpublished, TypeOK
<1>2. \A p \in Paths : fs'[p] \in Evidence => fs'[p].session <= session'
  BY <1>1 DEF Traced, Swept
<1>3. \A p \in Paths : Own(p)' => p \in Written(label)
  BY DEF Traced, Swept, Own
<1>4. Written(pc)' = Written(label)
  BY <1>1 DEF Written
<1> QED BY <1>1, <1>2, <1>3, <1>4, ForwardTraced

LEMMA EarlyTraced ==
  ASSUME Traced, Orderly', Check \/ Prepare \/ Open \/ Preflight
  PROVE  Traced'
<1>1. /\ pc \in {"check", "prepare", "open", "preflight"}
      /\ UNCHANGED <<undeleted, scene, session>>
  BY DEF Check, Prepare, Open, Preflight, scene
<1>2. ASSUME UNCHANGED fs,
             \/ pc = "check" /\ Goto("prepare")
             \/ pc = "prepare" /\ Goto("open")
             \/ pc = "preflight" /\ Goto("acquire")
      PROVE  Traced'
  BY <1>1, <1>2, WriteTraced DEF Written
<1>3. ASSUME UNCHANGED fs, pc # "preflight", Abandon(<<>>, "failed")
      PROVE  Traced'
  BY <1>1, <1>3, Lists, AbandonTraced DEF Written
<1>4. CASE Check \/ Prepare
  BY <1>2, <1>3, <1>4 DEF Check, Prepare
<1>5. CASE Open
  <2>1. CASE Exists("rawPartial") /\ format = "raw"
    BY <1>3, <1>5, <2>1 DEF Open
  <2>2. CASE ~(Exists("rawPartial") /\ format = "raw")
    <3>1. fs' = [fs EXCEPT !["rawPartial"] = Mine(FALSE)]
          /\ Goto("preflight") /\ pc = "open"
      BY <1>5, <2>2 DEF Open
    <3>2. fs \in [Paths -> {Absent, Foreign} \cup Evidence]
      BY DEF Traced, Orderly, TypeOK
    <3>3. \A p \in Paths :
            IF p = "rawPartial" THEN fs'[p].session = session
                                ELSE fs'[p] = fs[p]
      BY <3>1, <3>2 DEF Mine
    <3> QED BY <1>1, <3>1, <3>3, WriteTraced DEF Written
  <2> QED BY <2>1, <2>2
<1>6. CASE Preflight
  <2>1. /\ fs["rawPartial"] \in Evidence /\ Written(pc) = {"rawPartial"}
        /\ format \in {"raw", "container"} /\ pc = "preflight"
        /\ UNCHANGED fs
    <3>1. fs["rawPartial"] = Mine(FALSE) /\ pc = "preflight"
          /\ session \in 1..MaxSessions /\ degraded \in BOOLEAN
          /\ format \in {"raw", "container"}
      BY <1>6 DEF Preflight, Traced, Orderly, Staged, TypeOK, Numbered
    <3> QED BY <1>6, <3>1, MineType DEF Preflight, Written
  <2>2. CASE Goto("acquire")
    BY <1>2, <2>1, <2>2
  <2>3. CASE format = "raw" /\ Abandon(<<"rawPartial">>, "failed")
    BY <1>1, <2>1, <2>3, Lists, AbandonTraced
  <2>4. CASE format = "container" /\ Abandon(<<>>, "failed")
    BY <1>1, <2>1, <2>4, Lists, AbandonTraced
  <2> QED BY <1>6, <2>1, <2>2, <2>3, <2>4 DEF Preflight
<1> QED BY <1>4, <1>5, <1>6

(* While the image is in its staging file, the rollback is given that and  *)
(* the staging files of the sidecars.                                      *)
LEMMA SweepTraced ==
  ASSUME Traced, Orderly', NEW how,
         UNCHANGED <<fs, undeleted, scene>>,
         pc \in {"acquire", "acquired", "finish", "flush", "map", "mapFlush",
                "hash", "hashFlush", "promoteMap"},
         \/ Abandon(RemoveStagingFiles, how)
         \/ \E path \in {"mapPartial", "hashPartial"} :
              Abandon(<<path>> \o RemoveStagingFiles, how)
  PROVE  Traced'
<1>1. fs["rawPartial"] \in Evidence
  <2>1. session \in 1..MaxSessions /\ degraded \in BOOLEAN
        /\ (fs["rawPartial"] = Mine(TRUE) \/ fs["rawPartial"] = Mine(FALSE))
    BY DEF Traced, Orderly, Staged, TypeOK, Numbered
  <2> QED BY <2>1, MineType
<1>2. Written(pc) \subseteq Partials
  BY DEF Written, Partials
<1>3. CASE Abandon(RemoveStagingFiles, how)
  <2>1. \A i \in 1..3 : /\ RemoveStagingFiles[i] \in Partials
                        /\ RemoveStagingFiles[i] = "rawPartial" => i = 1
    BY Lists DEF Partials
  <2>2. \A p \in Partials : \E i \in 1..3 : RemoveStagingFiles[i] = p
    BY Lists DEF Partials
  <2> QED BY <1>1, <1>2, <1>3, <2>1, <2>2, Lists, AbandonTraced DEF Partials
<1>4. CASE \E path \in {"mapPartial", "hashPartial"} :
             Abandon(<<path>> \o RemoveStagingFiles, how)
  <2>1. PICK path \in {"mapPartial", "hashPartial"} :
          Abandon(<<path>> \o RemoveStagingFiles, how)
    BY <1>4
  <2> DEFINE list == SidecarFirst(path)
  <2>2. /\ Len(list) = 4 /\ list[1] = path /\ list[2] = "rawPartial"
        /\ list[3] = "mapPartial" /\ list[4] = "hashPartial"
    BY Lists DEF Paths
  <2>3. Abandon(list, how)
    BY <2>1 DEF SidecarFirst
  <2> HIDE DEF list
  <2>4. \A i \in 1..4 : /\ list[i] \in Partials
                        /\ list[i] = "rawPartial" => i = 2
    BY <2>2 DEF Partials
  <2>5. \A p \in Partials : \E i \in 1..4 : list[i] = p
    BY <2>2 DEF Partials
  <2> QED BY <1>1, <1>2, <2>2, <2>3, <2>4, <2>5, AbandonTraced DEF Partials
<1> QED BY <1>3, <1>4

(* What a capture writes into a file it has is its own.                    *)
LEMMA OwnFiles ==
  ASSUME Orderly, pc # "idle", NEW d \in BOOLEAN
  PROVE  /\ session \in 1..MaxSessions /\ degraded \in BOOLEAN
         /\ Mine(d) \in Evidence /\ Mine(d).session = session
         /\ fs \in [Paths -> {Absent, Foreign} \cup Evidence]
<1>1. session \in 1..MaxSessions /\ degraded \in BOOLEAN
      /\ fs \in [Paths -> {Absent, Foreign} \cup Evidence]
  BY DEF Orderly, TypeOK, Numbered
<1> QED BY <1>1, MineType DEF Mine

LEMMA ImageTraced ==
  ASSUME Traced, Orderly', Acquiring \/ Acquired \/ Finish \/ Flush
  PROVE  Traced'
<1>1. /\ pc \in {"acquire", "acquired", "finish", "flush"}
      /\ UNCHANGED <<undeleted, scene, session>>
  BY DEF Acquiring, Acquired, Finish, Flush, scene
<1>2. ASSUME NEW how, Abandon(RemoveStagingFiles, how), UNCHANGED fs
      PROVE  Traced'
  BY <1>1, <1>2, SweepTraced
<1>3. ASSUME UNCHANGED fs,
             \/ pc = "acquire" /\ Goto("acquired")
             \/ pc = "finish" /\ Goto("flush")
      PROVE  Traced'
  BY <1>1, <1>3, WriteTraced DEF Written
<1>4. ASSUME NEW file, file.session = session,
             fs' = [fs EXCEPT !["rawPartial"] = file],
             \/ pc = "acquired" /\ Goto("finish")
             \/ pc = "flush" /\ Goto("map")
      PROVE  Traced'
  <2>1. \A p \in Paths : IF p = "rawPartial" THEN fs'[p].session = session
                                             ELSE fs'[p] = fs[p]
    BY <1>1, <1>4, OwnFiles DEF Traced
  <2> QED BY <1>1, <1>4, <2>1, WriteTraced DEF Written
<1>5. fs["rawPartial"].session = session
  BY <1>1 DEF Traced, Orderly, Staged, Mine
<1>6. CASE Acquired
  <2>1. Telling(fs["rawPartial"], degraded').session = session
    BY <1>5 DEF Telling
  <2> QED BY <1>2, <1>4, <1>6, <2>1 DEF Acquired
<1>7. CASE Flush
  <2>1. Flushed(fs["rawPartial"]).session = session
    BY <1>5 DEF Flushed
  <2> QED BY <1>2, <1>4, <1>7, <2>1 DEF Flush
<1> QED BY <1>2, <1>3, <1>6, <1>7 DEF Acquiring, Finish

LEMMA SidecarTraced ==
  ASSUME Traced, Orderly', WriteMapJson \/ WriteSha256Sidecar
  PROVE  Traced'
<1> DEFINE path == IF pc \in {"map", "mapFlush"} THEN "mapPartial"
                   ELSE "hashPartial"
<1>1. /\ pc \in {"map", "mapFlush", "hash", "hashFlush"}
      /\ UNCHANGED <<undeleted, scene, session>>
      /\ path \in {"mapPartial", "hashPartial"}
  BY DEF WriteMapJson, WriteSha256Sidecar, CreateSidecar, FlushSidecar, scene
<1>2. ASSUME UNCHANGED fs,
             \/ Abandon(RemoveStagingFiles, "failed")
             \/ Abandon(<<path>> \o RemoveStagingFiles, "failed")
      PROVE  Traced'
  <2>1. \/ Abandon(RemoveStagingFiles, "failed")
        \/ \E p \in {"mapPartial", "hashPartial"} :
             Abandon(<<p>> \o RemoveStagingFiles, "failed")
    BY <1>1, <1>2
  <2> QED BY <1>1, <1>2, <2>1, SweepTraced
<1>3. ASSUME NEW file, file.session = session,
             fs' = [fs EXCEPT ![path] = file],
             \/ pc = "map" /\ Goto("mapFlush")
             \/ pc = "mapFlush" /\ Goto("hash")
             \/ pc = "hash" /\ Goto("hashFlush")
             \/ pc = "hashFlush" /\ Goto("promoteMap")
      PROVE  Traced'
  <2>1. \A p \in Paths : IF p = path THEN fs'[p].session = session
                                     ELSE fs'[p] = fs[p]
    BY <1>1, <1>3, OwnFiles DEF Traced
  <2> QED BY <1>1, <1>3, <2>1, WriteTraced DEF Written, Partials
<1>4. Mine(FALSE).session = session
  BY DEF Mine
<1>5. pc \in {"mapFlush", "hashFlush"} => Flushed(fs[path]).session = session
  BY DEF Traced, Orderly, Staged, Mine, Flushed
<1> QED BY <1>1, <1>2, <1>3, <1>4, <1>5
        DEF WriteMapJson, WriteSha256Sidecar, CreateSidecar, FlushSidecar

LEMMA PromoteTraced ==
  ASSUME Traced, Orderly', PromoteMap \/ PromoteHash \/ PromoteRaw
  PROVE  Traced'
<1>1. /\ pc \in {"promoteMap", "promoteHash", "promoteRaw"}
      /\ UNCHANGED <<undeleted, scene, session>>
      /\ Mine(TRUE) \in Evidence /\ Mine(TRUE).session = session
      /\ fs \in [Paths -> {Absent, Foreign} \cup Evidence]
  <2>1. pc \in {"promoteMap", "promoteHash", "promoteRaw"}
        /\ UNCHANGED <<undeleted, scene, session>>
    BY DEF PromoteMap, PromoteHash, PromoteRaw, Promote, scene
  <2> QED BY <2>1, OwnFiles DEF Traced
<1>2. ASSUME Abandon(RemoveStagingFiles, "failed"), UNCHANGED fs,
             pc = "promoteMap"
      PROVE  Traced'
  BY <1>1, <1>2, SweepTraced
<1>3. ASSUME UNCHANGED fs, pc # "promoteMap",
             Abandon(RemoveStagingFiles \o RemoveFinalizedSidecars, "failed")
      PROVE  Traced'
  <2> DEFINE list == Unwound
  <2>1. /\ Len(list) = 5
        /\ list[1] = "rawPartial" /\ list[2] = "mapPartial"
        /\ list[3] = "hashPartial" /\ list[4] = "mapFinal"
        /\ list[5] = "hashFinal"
    BY Lists
  <2>2. Abandon(list, "failed")
    BY <1>3 DEF Unwound
  <2> HIDE DEF list
  <2>3. fs["rawPartial"] \in Evidence /\ fs["mapFinal"] \in Evidence
    BY <1>1, <1>3 DEF Traced, Orderly, Staged
  <2>4. \A i \in 1..5 :
          /\ list[i] # "rawFinal"
          /\ list[i] = "rawPartial" => i = 1
          /\ list[i] = "mapFinal" => i = 4
    BY <2>1
  <2>5. \A p \in Written(pc) : \E i \in 1..5 : list[i] = p
    BY <1>1, <1>3, <2>1 DEF Written
  <2>6. ASSUME NEW i \in 1..Len(list)
        PROVE  /\ list[i] # "rawFinal"
               /\ list[i] \in {"rawPartial", "mapFinal"} =>
                    /\ fs[list[i]] \in Evidence
                    /\ \A j \in 1..Len(list) : list[j] = list[i] => j = i
    BY <2>1, <2>3, <2>4
  <2>7. \A p \in Written(pc) : \E i \in 1..Len(list) : list[i] = p
    BY <2>1, <2>5
  <2>8. UNCHANGED <<fs, undeleted, scene>>
    BY <1>1, <1>3
  <2> QED BY <2>2, <2>6, <2>7, <2>8, AbandonTraced
<1>4. ASSUME NEW from \in Paths, NEW to \in Paths, Move(from, to),
             \/ /\ pc = "promoteMap" /\ from = "mapPartial" /\ to = "mapFinal"
                /\ Goto("promoteHash")
             \/ /\ pc = "promoteHash" /\ from = "hashPartial"
                /\ to = "hashFinal" /\ Goto("promoteRaw")
             \/ /\ pc = "promoteRaw" /\ from = "rawPartial"
                /\ to = "rawFinal" /\ Goto("return")
      PROVE  Traced'
  <2>1. fs[from] = Mine(TRUE) /\ from # to
    BY <1>4 DEF Traced, Orderly, Staged
  <2>2. \A p \in Paths :
          /\ p = to => fs'[p].session = session
          /\ p = from => fs'[p] \notin Evidence
          /\ p # from /\ p # to => fs'[p] = fs[p]
    BY <1>1, <1>4, <2>1, NamesAssumption DEF Move
  <2>3. PICK label \in {"promoteHash", "promoteRaw", "return"} :
          /\ Goto(label) /\ to \in Written(label)
          /\ \A p \in Written(pc) : p # from => p \in Written(label)
    BY <1>4 DEF Written, Partials, Paths
  <2>4. \A p \in Paths :
          \/ fs'[p] = fs[p] /\ (p \in Written(pc) => p \in Written(label))
          \/ fs'[p] \notin Evidence
          \/ fs'[p].session = session /\ p \in Written(label)
    BY <2>2, <2>3
  <2>5. /\ UNCHANGED session /\ pc \notin {"idle", "cleanup"}
        /\ label \notin {"idle", "cleanup"} /\ Goto(label)
    BY <1>1, <1>4, <2>3
  <2> QED BY <1>1, <2>4, <2>5, WriteTraced
<1> QED BY <1>1, <1>2, <1>3, <1>4
        DEF PromoteMap, PromoteHash, PromoteRaw, Promote, Paths

(* What a deletion leaves was not to be deleted, or is noted as undeleted. *)
LEMMA DeleteTraced == ASSUME Traced, Orderly', Delete PROVE Traced'
<1>1. /\ pc = "cleanup" /\ todo \in Seq(Paths) /\ todo # <<>>
      /\ fs \in [Paths -> {Absent, Foreign} \cup Evidence]
      /\ todo' = Tail(todo)
      /\ UNCHANGED <<pc, format, session, outcome>>
  BY DEF Delete, Traced, Orderly, TypeOK, scene
<1>2. /\ Len(todo) \in Nat \ {0} /\ Len(todo') = Len(todo) - 1
      /\ Head(todo) = todo[1] /\ todo[1] \in Paths
      /\ \A i \in 1..Len(todo) - 1 : todo'[i] = todo[i + 1]
  BY <1>1
<1>3. \/ /\ fs' = [fs EXCEPT ![todo[1]] = Absent]
         /\ UNCHANGED undeleted
      \/ UNCHANGED fs /\ undeleted' = undeleted \cup {todo[1]}
  BY <1>2 DEF Delete
<1>4. \A p \in Paths :
        /\ p # todo[1] => fs'[p] = fs[p]
        /\ fs'[p] \in Evidence => fs'[p] = fs[p]
        /\ p \in undeleted => p \in undeleted'
        /\ p = todo[1] => fs'[p] \notin Evidence \/ p \in undeleted'
  BY <1>1, <1>2, <1>3, NamesAssumption
<1>5. Doomed'
  <2> SUFFICES ASSUME NEW i \in 1..Len(todo')
               PROVE  /\ todo'[i] # "rawFinal"
                      /\ todo'[i] \in {"rawPartial", "mapFinal"} =>
                           /\ fs'[todo'[i]] \in Evidence
                           /\ \A j \in 1..Len(todo') :
                                todo'[j] = todo'[i] => j = i
    BY DEF Doomed
  <2>1. /\ i + 1 \in 1..Len(todo) /\ 1 \in 1..Len(todo)
        /\ todo'[i] = todo[i + 1]
        /\ todo[i + 1] \in Paths /\ i + 1 # 1
    BY <1>1, <1>2
  <2>2. /\ todo[i + 1] # "rawFinal"
        /\ todo[i + 1] \in {"rawPartial", "mapFinal"} =>
             /\ fs[todo[i + 1]] \in Evidence
             /\ \A j \in 1..Len(todo) : todo[j] = todo[i + 1] => j = i + 1
    BY <2>1 DEF Traced, Doomed
  <2>3. ASSUME todo[i + 1] \in {"rawPartial", "mapFinal"}
        PROVE  fs'[todo[i + 1]] \in Evidence
    <3>1. todo[1] # todo[i + 1]
      BY <2>1, <2>2, <2>3
    <3> QED BY <1>4, <2>1, <2>2, <2>3, <3>1
  <2>4. ASSUME todo[i + 1] \in {"rawPartial", "mapFinal"},
               NEW j \in 1..Len(todo'), todo'[j] = todo'[i]
        PROVE  j = i
    <3>1. j + 1 \in 1..Len(todo) /\ todo[j + 1] = todo[i + 1]
      BY <1>2, <2>1, <2>4
    <3>2. j + 1 = i + 1
      BY <2>2, <2>4, <3>1
    <3> QED BY <1>2, <3>2
  <2> QED BY <2>1, <2>2, <2>3, <2>4
<1>6. Swept'
  <2>1. ASSUME NEW p \in Paths, Own(p)'
        PROVE  \/ p \in undeleted' \/ Listed(p)'
               \/ p = "rawPartial" /\ format' = "container"
    <3>1. fs'[p] \in Evidence /\ Own(p)
      BY <1>1, <1>4, <2>1 DEF Own
    <3>2. CASE Listed(p)
      <4>1. PICK k \in 1..Len(todo) : todo[k] = p
        BY <3>2 DEF Listed
      <4>2. CASE k = 1
        BY <1>4, <3>1, <4>1, <4>2
      <4>3. CASE k # 1
        <5>1. k - 1 \in 1..Len(todo') /\ todo'[k - 1] = p
          BY <1>2, <4>1, <4>3
        <5> QED BY <5>1 DEF Listed
      <4> QED BY <4>2, <4>3
    <3>3. CASE ~Listed(p)
      BY <1>1, <1>4, <3>1, <3>3 DEF Traced, Swept
    <3> QED BY <3>2, <3>3
  <2>2. \A p \in Paths : fs'[p] \in Evidence => fs'[p].session <= session'
    BY <1>1, <1>4 DEF Traced, Swept
  <2>3. \A p \in Paths : p \in Written(pc)'
    BY <1>1 DEF Written
  <2> QED BY <2>1, <2>2, <2>3 DEF Swept
<1>7. FailureLeavesNothing'
  BY <1>1 DEF FailureLeavesNothing
<1> QED BY <1>5, <1>6, <1>7 DEF Traced

LEMMA IntrudeTraced == ASSUME Traced, Orderly', Intrude PROVE Traced'
<1>1. PICK p \in Paths : ~Exists(p) /\ fs' = [fs EXCEPT ![p] = Foreign]
  BY DEF Intrude
<1>2. /\ fs \in [Paths -> {Absent, Foreign} \cup Evidence]
      /\ todo \in Seq(Paths)
      /\ UNCHANGED <<pc, format, todo, outcome, session, undeleted>>
  BY DEF Intrude, Traced, Orderly, TypeOK
<1>3. \A q \in Paths : /\ fs'[q] \in Evidence => fs'[q] = fs[q]
                       /\ fs[q] \in Evidence => fs'[q] = fs[q]
  BY <1>1, <1>2, NamesAssumption DEF Exists
<1>4. Doomed'
  <2>1. \A i \in 1..Len(todo) : todo[i] \in Paths
    BY <1>2
  <2> QED BY <1>2, <1>3, <2>1 DEF Traced, Doomed
<1>5. \A q \in Paths : Own(q)' => Own(q)
  BY <1>2, <1>3 DEF Own
<1>6. Swept'
  <2>1. /\ \A q \in Paths : Listed(q)' <=> Listed(q)
        /\ Written(pc)' = Written(pc)
    BY <1>2 DEF Listed, Written
  <2> QED BY <1>2, <1>3, <1>5, <2>1 DEF Traced, Swept
<1>7. FailureLeavesNothing'
  BY <1>2, <1>5 DEF Traced, FailureLeavesNothing
<1> QED BY <1>4, <1>6, <1>7 DEF Traced

(* A new capture has no file yet: every file there is of an earlier one.   *)
LEMMA BeginTraced == ASSUME Traced, Orderly', Begin PROVE Traced'
<1>1. /\ pc = "idle" /\ pc' = "check" /\ UNCHANGED <<fs, todo>>
      /\ session' = session + 1 /\ session \in Nat
      /\ todo = <<>>
  BY BoundsAssumption DEF Begin, Traced, Orderly, TypeOK, Unpublished
<1>2. ASSUME NEW p \in Paths, fs'[p] \in Evidence
      PROVE  fs'[p].session <= session' /\ fs'[p].session # session'
  <2>1. fs[p].session <= session /\ fs[p].session \in 1..MaxSessions
    BY <1>1, <1>2 DEF Traced, Swept, Evidence
  <2> QED BY <1>1, <2>1, BoundsAssumption
<1>3. \A p \in Paths : ~Own(p)'
  BY <1>2 DEF Own
<1> QED BY <1>1, <1>2, <1>3, ForwardTraced

(* Steps that leave the capture or end it. *)
LEMMA EndingTraced ==
  ASSUME Traced, Orderly',
         ReturnFailure \/ ReturnSuccess \/ Crash \/ Cancel \/ Collect
  PROVE  Traced'
<1>1. CASE Cancel
  <2>1. UNCHANGED <<fs, pc, format, todo, outcome, session, undeleted>>
    BY <1>1 DEF Cancel, place, scene
  <2> QED BY <2>1
          DEF Traced, Doomed, Swept, Listed, Written, Own, FailureLeavesNothing
<1>2. CASE ~Cancel
  <2>1. /\ pc' = "idle" /\ todo' = <<>>
        /\ UNCHANGED <<format, session, undeleted>>
        /\ \A p \in Paths : fs'[p] \in Evidence => fs'[p] = fs[p]
    BY <1>2, NamesAssumption
       DEF ReturnFailure, ReturnSuccess, Crash, Collect, place, scene, Traced,
           Orderly, Unpublished
  <2>2. Doomed'
    BY <2>1, Lists DEF Doomed
  <2>3. \A p \in Paths : Own(p)' => Own(p)
    BY <2>1 DEF Own
  <2>4. Swept'
    <3>1. \A p \in Paths : p \in Written(pc)'
      BY <2>1 DEF Written
    <3> QED BY <2>1, <3>1 DEF Traced, Swept
  <2>5. FailureLeavesNothing'
    <3>1. CASE ReturnFailure
      <4>1. pc = "cleanup" /\ \A p \in Paths : ~Listed(p)
        BY <3>1, Lists DEF ReturnFailure, Listed
      <4> QED BY <2>1, <2>3, <4>1 DEF Traced, Swept, FailureLeavesNothing
    <3>2. CASE ReturnSuccess \/ Crash
      BY <3>2 DEF ReturnSuccess, Crash, FailureLeavesNothing
    <3>3. CASE Collect
      BY <2>1, <2>3, <3>3 DEF Collect, Traced, FailureLeavesNothing
    <3> QED BY <1>2, <3>1, <3>2, <3>3
  <2> QED BY <2>2, <2>4, <2>5 DEF Traced
<1> QED BY <1>1, <1>2

LEMMA InitTraced == Init => Traced
<1> SUFFICES ASSUME Init PROVE Traced
  OBVIOUS
<1>1. /\ todo = <<>> /\ pc = "idle" /\ outcome = "none"
      /\ \A p \in Paths : fs[p] \notin Evidence
  BY NamesAssumption DEF Init
<1>2. Doomed
  BY <1>1, Lists DEF Doomed
<1>3. Swept /\ FailureLeavesNothing
  BY <1>1 DEF Swept, Own, FailureLeavesNothing
<1> QED BY <1>2, <1>3, InitOrderly DEF Traced

LEMMA NextTraced == Traced /\ [Next]_vars => Traced'
<1> SUFFICES ASSUME Traced, [Next]_vars PROVE Traced'
  OBVIOUS
<1>1. Orderly'
  BY NextOrderly DEF Traced
<1>2. CASE UNCHANGED vars
  <2>1. UNCHANGED <<fs, pc, format, todo, outcome, session, undeleted>>
    BY <1>2 DEF vars, place, scene
  <2> QED BY <1>1, <2>1
          DEF Traced, Doomed, Swept, Listed, Written, Own, FailureLeavesNothing
<1> QED BY <1>1, <1>2, BeginTraced, EarlyTraced, ImageTraced, SidecarTraced,
           PromoteTraced, DeleteTraced, IntrudeTraced, EndingTraced
        DEF Next, Transaction

THEOREM TracedAlways == Spec => []Traced
BY InitTraced, NextTraced, PTL DEF Spec

(* evidence_transaction.cpp:33-51 and 140-243: a capture that fails or is  *)
(* cancelled at any call has deleted every file of its own by the time it  *)
(* returns, except what the system would not delete and the staged image   *)
(* of a container.                                                         *)
THEOREM NothingLeft == Spec => []FailureLeavesNothing
<1>1. Traced => FailureLeavesNothing
  BY DEF Traced
<1> QED BY <1>1, TracedAlways, PTL

(* evidence_transaction.cpp:33-51, zdmp_writer.cpp:35: whenever another    *)
(* program creates a file under one of the six names, the capture replaces *)
(* or deletes it only as the staging file of a container, or when it rolls *)
(* back a map's staging file, or the sidecar under either name.            *)
THEOREM ForeignSafe == Spec => ForeignFilesKept
<1> DEFINE Kept ==
      pc # "idle" => \A p \in Paths :
        fs[p] = Foreign /\ fs'[p] # Foreign =>
          \/ pc = "open" /\ format = "container" /\ p = "rawPartial"
          \/ pc = "cleanup" /\ p \in {"mapPartial", "hashPartial", "hashFinal"}
<1>1. Traced /\ [Next]_vars => [Kept]_vars
  <2> SUFFICES ASSUME Traced, [Next]_vars, pc # "idle", NEW p \in Paths,
                      fs[p] = Foreign, fs'[p] # Foreign
               PROVE  \/ pc = "open" /\ format = "container"
                         /\ p = "rawPartial"
                      \/ pc = "cleanup"
                         /\ p \in {"mapPartial", "hashPartial", "hashFinal"}
                      \/ UNCHANGED vars
    OBVIOUS
  <2>1. /\ fs \in [Paths -> {Absent, Foreign} \cup Evidence]
        /\ todo \in Seq(Paths) /\ format \in {"raw", "container"}
        /\ Mine(TRUE) # Foreign /\ Mine(FALSE) # Foreign
    BY OwnFiles, NamesAssumption DEF Traced, Orderly, TypeOK
  <2>2. CASE Open
    BY <2>1, <2>2, NamesAssumption DEF Open, Exists
  <2>3. CASE Delete
    <3>1. /\ pc = "cleanup" /\ todo # <<>> /\ Head(todo) = todo[1]
          /\ 1 \in 1..Len(todo)
          /\ fs' = fs \/ fs' = [fs EXCEPT ![Head(todo)] = Absent]
      BY <2>1, <2>3 DEF Delete
    <3>2. p = todo[1]
      BY <2>1, <3>1
    <3>3. p \notin {"rawFinal", "rawPartial", "mapFinal"}
      BY <3>1, <3>2, NamesAssumption DEF Traced, Doomed
    <3> QED BY <3>1, <3>3 DEF Paths
  <2>4. CASE Acquired \/ Flush
    <3>1. fs["rawPartial"] # Foreign
      BY <2>1, <2>4 DEF Acquired, Flush, Traced, Orderly, Staged
    <3> QED BY <2>1, <2>4, <3>1 DEF Acquired, Flush
  <2>5. CASE WriteMapJson \/ WriteSha256Sidecar
    <3>1. /\ pc = "mapFlush" => fs["mapPartial"] # Foreign
          /\ pc = "hashFlush" => fs["hashPartial"] # Foreign
      BY <2>1 DEF Traced, Orderly, Staged
    <3> QED BY <2>1, <2>5, <3>1, NamesAssumption
            DEF WriteMapJson, WriteSha256Sidecar, CreateSidecar, FlushSidecar,
                Exists
  <2>6. CASE PromoteMap \/ PromoteHash \/ PromoteRaw
    <3>1. /\ pc = "promoteMap" => fs["mapPartial"] # Foreign
          /\ pc = "promoteHash" => fs["hashPartial"] # Foreign
          /\ pc = "promoteRaw" => fs["rawPartial"] # Foreign
      BY <2>1 DEF Traced, Orderly, Staged
    <3> QED BY <2>1, <2>6, <3>1, NamesAssumption
            DEF PromoteMap, PromoteHash, PromoteRaw, Promote, Move, Exists
  <2>7. CASE Intrude
    BY <2>1, <2>7 DEF Intrude
  <2>8. CASE ~(\/ Open \/ Delete \/ Acquired \/ Flush \/ WriteMapJson
              \/ WriteSha256Sidecar \/ PromoteMap \/ PromoteHash
              \/ PromoteRaw \/ Intrude)
    BY <2>8
       DEF Next, Begin, Transaction, Check, Prepare, Preflight, Acquiring,
           Finish, ReturnFailure, ReturnSuccess, Cancel, Crash, Collect, place
  <2> QED BY <2>2, <2>3, <2>4, <2>5, <2>6, <2>7, <2>8
<1> QED BY <1>1, TracedAlways, PTL DEF Spec, ForeignFilesKept
---------------------------------------------------------------------------
(* The publication.                                                        *)

(* What a capture is about to answer is true of the canonical name. *)
Answerable ==
  /\ pc = "cleanup" => ~Own("rawFinal")
  /\ pc = "return" => Own("rawFinal") /\ fs["rawFinal"].degraded = degraded

Publishing == Traced /\ Answerable

Image == fs["rawFinal"]
Bundle == IF fs["rawFinal"] \in Evidence
          THEN [image |-> fs["rawFinal"], map |-> fs["mapFinal"],
                hash |-> fs["hashFinal"]]
          ELSE Absent
Same(file) == [image |-> file, map |-> file, hash |-> file]

(* Under Orderly the image alone determines the bundle. *)
LEMMA BundleOfImage ==
  ASSUME Orderly
  PROVE  /\ Image \in Evidence => /\ Bundle = Same(Image) /\ Bundle # Absent
                                  /\ Bundle.image = Image
         /\ Image \notin Evidence => Bundle = Absent
BY BundleAssumption DEF Orderly, ImageImpliesBundle, Image, Bundle, Same

(* Only the last rename puts an image of this capture under its name.      *)
LEMMA NextAnswerable ==
  ASSUME Publishing, [Next]_vars PROVE Answerable'
<1>1. Traced /\ TypeOK /\ Traced'
  BY NextTraced DEF Publishing, Traced, Orderly
<1>2. "rawFinal" \in Paths /\ fs \in [Paths -> {Absent, Foreign} \cup Evidence]
  BY <1>1 DEF TypeOK, Paths
<1>3. CASE PromoteRaw
  <2>1. Mine(TRUE) \in Evidence /\ fs["rawPartial"] = Mine(TRUE)
        /\ pc = "promoteRaw" /\ UNCHANGED <<session, degraded>>
    BY <1>1, <1>3, OwnFiles
       DEF PromoteRaw, Promote, Traced, Orderly, Staged, scene
  <2>2. CASE Move("rawPartial", "rawFinal") /\ Goto("return")
    <3>1. fs'["rawFinal"] = Mine(TRUE) /\ pc' = "return"
      BY <1>2, <2>1, <2>2 DEF Move, Goto
    <3> QED BY <2>1, <3>1 DEF Answerable, Own, Mine
  <2>3. CASE pc' = "cleanup" /\ UNCHANGED fs
    BY <1>1, <1>2, <2>1, <2>3 DEF Answerable, Own, Traced, Swept, Written
  <2> QED BY <1>3, <2>2, <2>3 DEF PromoteRaw, Promote, Abandon
<1>4. CASE Intrude
  <2>1. /\ UNCHANGED <<pc, session, degraded>>
        /\ fs["rawFinal"] # Absent => fs'["rawFinal"] = fs["rawFinal"]
        /\ fs'["rawFinal"] \in Evidence => fs'["rawFinal"] = fs["rawFinal"]
    BY <1>2, <1>4, NamesAssumption DEF Intrude, Exists
  <2> QED BY <2>1, NamesAssumption DEF Publishing, Answerable, Own
<1>5. CASE Delete
  <2>1. /\ UNCHANGED <<pc, session>> /\ pc = "cleanup"
        /\ fs'["rawFinal"] = fs["rawFinal"] \/ fs'["rawFinal"] = Absent
    BY <1>2, <1>5 DEF Delete, scene
  <2> QED BY <2>1, NamesAssumption DEF Publishing, Answerable, Own
<1>6. CASE Cancel \/ UNCHANGED vars
  BY <1>6 DEF Cancel, vars, place, scene, Publishing, Answerable, Own
<1>7. CASE \/ Check \/ Prepare \/ Open \/ Preflight \/ Acquiring \/ Acquired
           \/ Finish \/ Flush \/ WriteMapJson \/ WriteSha256Sidecar
           \/ PromoteMap \/ PromoteHash
  <2>1. /\ pc \in Staging \cup {"check"} /\ pc # "promoteRaw"
        /\ pc' # "return" /\ UNCHANGED session
        /\ fs'["rawFinal"] = fs["rawFinal"]
    BY <1>2, <1>7
       DEF Check, Prepare, Open, Preflight, Acquiring, Acquired, Finish, Flush,
           WriteMapJson, WriteSha256Sidecar, CreateSidecar, FlushSidecar,
           PromoteMap, PromoteHash, Promote, Move, Goto, Abandon, Staging,
           scene
  <2>2. ~Own("rawFinal")
    BY <1>1, <1>2, <2>1 DEF Traced, Swept, Written, Partials, Staging
  <2> QED BY <2>1, <2>2 DEF Answerable, Own
<1>8. CASE Begin \/ ReturnFailure \/ ReturnSuccess \/ Crash \/ Collect
  BY <1>8 DEF Begin, ReturnFailure, ReturnSuccess, Crash, Collect, Answerable
<1> QED BY <1>3, <1>4, <1>5, <1>6, <1>7, <1>8 DEF Next, Transaction

THEOREM PublishingAlways == Spec => []Publishing
<1>1. Init => Publishing
  BY InitTraced DEF Init, Publishing, Answerable
<1>2. Publishing /\ [Next]_vars => Publishing'
  BY NextTraced, NextAnswerable DEF Publishing
<1> QED BY <1>1, <1>2, PTL DEF Spec

(* A step that leaves the image alone, and begins and ends no capture,     *)
(* cannot be seen.                                                         *)
LEMMA Unseen ==
  ASSUME Orderly, Orderly', UNCHANGED <<session, outcome>>,
         pc # "idle" <=> pc' # "idle",
         UNCHANGED Image \/ (Image \notin Evidence /\ Image' \notin Evidence)
  PROVE  UNCHANGED Publication!publicationVars
<1>1. Bundle' = Bundle
  <2>1. CASE Image \in Evidence
    BY <2>1 DEF Orderly, ImageImpliesBundle, Image, Bundle
  <2>2. CASE Image \notin Evidence
    BY <2>2 DEF Image, Bundle
  <2> QED BY <2>1, <2>2
<1> QED BY <1>1 DEF Publication!publicationVars, Bundle

(* The rename of the image is the commit point. *)
LEMMA CommitRefines ==
  ASSUME Publishing, Orderly', PromoteRaw,
         Move("rawPartial", "rawFinal"), Goto("return")
  PROVE  Publication!Publish
<1>1. /\ Orderly /\ pc = "promoteRaw" /\ pc' = "return"
      /\ fs \in [Paths -> {Absent, Foreign} \cup Evidence]
      /\ Mine(TRUE) \in Evidence /\ degraded \in BOOLEAN
      /\ fs["rawPartial"] = Mine(TRUE)
      /\ UNCHANGED <<session, outcome>>
  BY OwnFiles
     DEF Publishing, Traced, PromoteRaw, Promote, Orderly, Staged, scene, Goto
<1>2. Image \notin Evidence /\ Bundle = Absent
  BY <1>1 DEF Orderly, Unpublished, Staging, Image, Bundle
<1>3. Image' = Mine(TRUE)
  BY <1>1 DEF Move, Paths, Image
<1>4. Bundle' = Same(Mine(TRUE))
  BY <1>1, <1>3 DEF Orderly, ImageImpliesBundle, Image, Bundle, Same
<1>5. Same(Mine(TRUE)) =
        [image |-> Publication!Whole(session, degraded),
         map |-> Publication!Whole(session, degraded),
         hash |-> Publication!Whole(session, degraded)]
  BY DEF Same, Mine, Publication!Whole
<1> QED BY <1>1, <1>2, <1>4, <1>5 DEF Publication!Publish, Bundle

LEMMA AnswerRefines ==
  ASSUME Publishing, ReturnFailure \/ ReturnSuccess
  PROVE  Publication!Answer
<1>1. Orderly /\ Answerable
  BY DEF Publishing, Traced
<1>2. /\ pc # "idle" /\ pc' = "idle" /\ UNCHANGED <<session, fs>>
  BY DEF ReturnFailure, ReturnSuccess, place, scene
<1>3. Bundle' = Bundle
  BY <1>2 DEF Bundle
<1>4. CASE ReturnFailure
  <2>1. ~(Bundle # Absent /\ Bundle.image.session = session)
    BY <1>1, <1>4, BundleOfImage DEF ReturnFailure, Answerable, Own, Image
  <2>2. ~Publication!Published
    BY <2>1 DEF Publication!Published, Bundle
  <2>3. outcome' \in {"failed", "cancelled"}
    BY <1>4 DEF ReturnFailure
  <2> QED BY <1>2, <1>3, <2>2, <2>3 DEF Publication!Answer, Bundle
<1>5. CASE ReturnSuccess
  <2>1. /\ Bundle # Absent /\ Bundle.image.session = session
        /\ Bundle.image.degraded = degraded
    BY <1>1, <1>5, BundleOfImage DEF ReturnSuccess, Answerable, Own, Image
  <2>2. Publication!Published
    BY <2>1 DEF Publication!Published, Bundle
  <2>3. outcome' = IF Bundle.image.degraded THEN "incomplete" ELSE "complete"
    BY <1>5, <2>1 DEF ReturnSuccess
  <2>4. outcome' \in IF Bundle.image.degraded THEN {"incomplete"}
                     ELSE {"complete"}
    BY <2>3
  <2> QED BY <1>2, <1>3, <2>2, <2>4 DEF Publication!Answer, Bundle
<1> QED BY <1>4, <1>5

LEMMA StepRefines ==
  ASSUME Publishing, Publishing', [Next]_vars
  PROVE  [Publication!Next]_Publication!publicationVars
<1>1. /\ Orderly /\ Orderly' /\ "rawFinal" \in Paths
      /\ fs \in [Paths -> {Absent, Foreign} \cup Evidence]
  BY DEF Publishing, Traced, Orderly, TypeOK, Paths
<1>2. CASE Begin
  <2>1. Bundle' = Bundle
    BY <1>2 DEF Begin, Bundle
  <2>2. Publication!Begin
    BY <1>2, <2>1 DEF Begin, Publication!Begin, Bundle
  <2> QED BY <2>2 DEF Publication!Next
<1>3. CASE ReturnFailure \/ ReturnSuccess
  BY <1>3, AnswerRefines DEF Publication!Next
<1>4. CASE Crash
  <2>1. Bundle' = Bundle
    BY <1>4 DEF Crash, Bundle
  <2>2. Publication!Crash
    BY <1>4, <2>1 DEF Crash, scene, Publication!Crash, Bundle
  <2> QED BY <2>2 DEF Publication!Next
<1>5. CASE Collect
  <2>1. Bundle' = Absent
    BY <1>1, <1>5, NamesAssumption DEF Collect, Bundle
  <2>2. Publication!Collect
    BY <1>5, <2>1 DEF Collect, Publication!Collect, Bundle
  <2> QED BY <2>2 DEF Publication!Next
<1>6. CASE PromoteRaw
  <2>1. CASE Move("rawPartial", "rawFinal") /\ Goto("return")
    BY <1>1, <1>6, <2>1, CommitRefines DEF Publication!Next
  <2>2. CASE pc' = "cleanup" /\ UNCHANGED fs
    BY <1>1, <1>6, <2>2, Unseen DEF PromoteRaw, Promote, scene, Image
  <2> QED BY <1>6, <2>1, <2>2 DEF PromoteRaw, Promote, Abandon
<1>7. CASE Intrude \/ Delete \/ Cancel \/ UNCHANGED vars
  <2>1. /\ UNCHANGED <<session, outcome, pc>>
        /\ \/ UNCHANGED Image
           \/ Image \notin Evidence /\ Image' \notin Evidence
    <3>1. CASE Intrude
      BY <1>1, <3>1, NamesAssumption DEF Intrude, Exists, Image
    <3>2. CASE Delete
      BY <1>1, <3>2, NamesAssumption
         DEF Delete, scene, Image, Orderly, Unpublished
    <3>3. CASE Cancel \/ UNCHANGED vars
      BY <3>3 DEF Cancel, vars, place, scene, Image
    <3> QED BY <1>7, <3>1, <3>2, <3>3
  <2> QED BY <1>1, <2>1, Unseen
<1>8. CASE \/ Check \/ Prepare \/ Open \/ Preflight \/ Acquiring \/ Acquired
           \/ Finish \/ Flush \/ WriteMapJson \/ WriteSha256Sidecar
           \/ PromoteMap \/ PromoteHash
  <2>1. /\ pc # "idle" /\ pc' # "idle" /\ UNCHANGED <<session, outcome>>
        /\ fs'["rawFinal"] = fs["rawFinal"]
    BY <1>1, <1>8
       DEF Check, Prepare, Open, Preflight, Acquiring, Acquired, Finish, Flush,
           WriteMapJson, WriteSha256Sidecar, CreateSidecar, FlushSidecar,
           PromoteMap, PromoteHash, Promote, Move, Goto, Abandon, scene
  <2> QED BY <1>1, <2>1, Unseen DEF Image
<1> QED BY <1>2, <1>3, <1>4, <1>5, <1>6, <1>7, <1>8 DEF Next, Transaction

(* evidence_transaction.cpp:209-245: the three renames look like one step, *)
(* in which a whole, durable bundle of one capture appears, and what the   *)
(* capture then answers tells whether it did and whether bytes are missing *)
(* from it.                                                                *)
THEOREM TransactionRefinement == Spec => PublishesAtomically
<1>1. Init => Publication!Init
  <2> SUFFICES ASSUME Init PROVE Publication!Init
    OBVIOUS
  <2>1. fs["rawFinal"] \notin Evidence /\ session = 0 /\ pc = "idle"
        /\ outcome = "none"
    BY NamesAssumption DEF Init, Paths
  <2> QED BY <2>1 DEF Publication!Init
<1>2. Publishing /\ Publishing' /\ [Next]_vars =>
        [Publication!Next]_Publication!publicationVars
  BY StepRefines
<1> QED BY <1>1, <1>2, PublishingAlways, PTL
        DEF Spec, PublishesAtomically, Publication!Spec
=============================================================================
