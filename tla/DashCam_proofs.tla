--------------------------- MODULE DashCam_proofs ---------------------------
(***************************************************************************)
(* Proofs about DashCam, for any number of connection attempts, camera     *)
(* openings and recordings: the camera, its lock and the readings file,    *)
(* and that the Bluetooth session beside them is ObdSession's, with what   *)
(* is proved of it there.                                                  *)
(***************************************************************************)
EXTENDS DashCam, FiniteSets, FiniteSetTheorems, TLAPS

Active(o) == camera[o] \in {"opening", "open"}

\* The permit that is missing is with a camera being opened, or lost.
LockInv == permits = 0 => denied > 0 \/ \E o \in Opens : camera[o] = "opening"

\* A resumed fragment without a texture listens for it.
ListenInv == resumed /\ ~texture => listening

\* Until the lock is released once too often one camera at most is being opened.  But for
\* those opened by the listener behind a paused fragment, there is one camera, which is
\* mCameraDevice once it is open, and it belongs to a resumed fragment with a texture.
\* While one is still being opened behind a fragment no other can be opened before it.
CameraInv ==
    alive /\ surplus = 0 =>
        /\ permits \in {0, 1}
        /\ \A o \in Opens :
              /\ camera[o] = "opening" => permits = 0
              /\ Active(o) => granted
              /\ o \in behind /\ camera[o] = "opening" => ~(resumed /\ texture)
              /\ o \notin behind /\ camera[o] = "open" => device = o
              /\ o \notin behind /\ Active(o) => resumed /\ texture
        /\ \A o, p \in Opens :
              camera[o] = "opening" /\ Active(p) => o = p \/ (camera[p] = "open" /\ p \in behind)

\* The name of the readings file is chosen before the recorder leaves its first state.
RecorderInv ==
    alive =>
        /\ isRecording => readingsPath # None
        /\ recorder \in {"unprepared", "prepared", "started"} => readingsPath # None

IInv == TypeOK /\ LockInv /\ StuckOnlyByOpening /\ ListenInv /\ CameraInv /\ RecorderInv

LEMMA InitIInv == Init => IInv
<1> SUFFICES ASSUME Init
             PROVE  IInv
  OBVIOUS
<1>1. TypeOK
  <2>1. checked \in [1..MaxAttempts -> 0..recordings] /\ late \in [Recordings -> Nat]
    BY DEF Init, None
  <2>2. /\ alive \in BOOLEAN /\ isRecording \in BOOLEAN
        /\ granted \in BOOLEAN /\ resumed \in BOOLEAN /\ finishing \in BOOLEAN
        /\ texture \in BOOLEAN /\ listening \in BOOLEAN /\ mainPc = "idle"
        /\ orphaned \in BOOLEAN
    BY DEF Init, Session!Init
  <2>3. /\ permits \in Nat /\ surplus \in Nat /\ denied \in Nat /\ runnables \in Nat
        /\ camera \in [Opens -> {"none", "opening", "open", "closed", "left"}]
        /\ opens \in 0..MaxOpens /\ device \in Opens \cup {None} /\ behind \subseteq 1..opens
        /\ recordings \in 0..MaxRecordings /\ readingsPath \in 0..recordings
    BY DashCamAssumption DEF Init, None
  <2>4. /\ recorder = "none" /\ session = "none" /\ pending = {} /\ posted = {}
        /\ backgroundPc = "idle" /\ configuring = "preview"
    BY DEF Init
  <2> QED
    BY <2>1, <2>2, <2>3, <2>4 DEF TypeOK, FragmentTypes, CameraTypes, CaptureTypes, FileTypes
<1>2. LockInv /\ StuckOnlyByOpening
  BY DEF Init, Session!Init, LockInv, StuckOnlyByOpening
<1>3. CameraInv /\ ListenInv
  BY DEF Init, CameraInv, Active, ListenInv
<1>4. RecorderInv
  BY DEF Init, RecorderInv
<1> QED
  BY <1>1, <1>2, <1>3, <1>4 DEF IInv

\* The Bluetooth session leaves everything of the fragment alone, and the main
\* thread where it is or in connect().
LEMMA SessionKeeps ==
    ASSUME IInv, Connect \/ SessionStep \/ \E i \in 1..MaxAttempts : NoFile(i)
    PROVE  /\ alive /\ alive' \in BOOLEAN
           /\ mainPc' \in {mainPc, "idle", "join", "sleep"}
           /\ UNCHANGED <<lifecycle, cameras, recorder, capture, isRecording, files>>
<1>1. CASE Connect
  BY <1>1 DEF Connect, Session!UserStep, Session!Connect, IInv, TypeOK, FragmentTypes
<1>2. CASE \E i \in 1..MaxAttempts : NoFile(i)
  BY <1>2 DEF NoFile, Session!Report, Session!AtReader, IInv, TypeOK, FragmentTypes
<1>3. CASE SessionStep
  <2>1. CASE Session!MainStep
    BY <1>3, <2>1 DEF SessionStep, Session!MainStep, Session!JoinEnds, Session!Connected,
                      Session!Crash, IInv, TypeOK, FragmentTypes
  <2>2. ASSUME NEW j \in 1..MaxAttempts, Session!ConnectStep(j)
        PROVE  alive /\ alive' \in BOOLEAN /\ mainPc' = mainPc
    BY <2>2 DEF Session!ConnectStep, Session!PickUpSocket, Session!ConnectSucceeds,
                Session!ConnectFails, Session!NoSocket, Session!Settle, Session!Initialised,
                Session!AtConnect, Session!Crash, IInv, TypeOK, FragmentTypes
  <2>3. ASSUME NEW j \in 1..MaxAttempts,
               \/ Session!LinkDrops(j) \/ Session!Collect(j) \/ Session!ReadFails(j)
               \/ Session!ConnectionLost(j) \/ Session!Unexpected(j)
        PROVE  alive /\ alive' \in BOOLEAN /\ mainPc' = mainPc
    BY <2>3 DEF Session!LinkDrops, Session!Collect, Session!ReadFails, Session!ConnectionLost,
                Session!Unexpected, Session!AtReader, Session!Crash, IInv, TypeOK, FragmentTypes
  <2>4. UNCHANGED <<lifecycle, cameras, recorder, capture, isRecording, files>>
    BY <1>3 DEF SessionStep
  <2> QED
    BY <1>3, <2>1, <2>2, <2>3, <2>4 DEF SessionStep
<1> QED
  BY <1>1, <1>2, <1>3

\* Steps that leave the fragment's cameras and the recorder alone.
LEMMA QuietKeeps ==
    ASSUME IInv, alive,
           alive' \in BOOLEAN,
           mainPc' \in {mainPc, "idle", "join", "sleep"},
           UNCHANGED <<lifecycle, cameras, recorder, isRecording, readingsPath>>
    PROVE  LockInv' /\ StuckOnlyByOpening' /\ ListenInv' /\ CameraInv' /\ RecorderInv'
<1>1. /\ permits' = permits /\ denied' = denied /\ camera' = camera /\ surplus' = surplus
      /\ device' = device /\ resumed' = resumed /\ texture' = texture
      /\ granted' = granted /\ listening' = listening /\ behind' = behind
      /\ recorder' = recorder /\ isRecording' = isRecording /\ readingsPath' = readingsPath
  BY DEF lifecycle, cameras
<1>2. LockInv' /\ StuckOnlyByOpening'
  BY <1>1 DEF IInv, LockInv, StuckOnlyByOpening
<1>3. CameraInv' /\ ListenInv'
  BY <1>1 DEF IInv, CameraInv, Active, ListenInv
<1>4. RecorderInv'
  BY <1>1 DEF IInv, RecorderInv
<1> QED
  BY <1>2, <1>3, <1>4

\* openCamera(), for a fragment that is resumed now, or behind its back.
LEMMA OpenCameraKeeps ==
    ASSUME IInv, Idle, OpenCamera, ~resumed \/ ~texture,
           texture' = TRUE, mainPc' = mainPc, granted' = granted,
           \/ resumed' /\ behind' = behind
           \/ ~resumed /\ ~resumed' /\ behind' = behind \cup (opens + 1)..opens',
           UNCHANGED <<isRecording, readingsPath>>
    PROVE  /\ alive' \in BOOLEAN
           /\ recorder' \in {"none", "initial", "unprepared", "prepared", "started"}
           /\ CameraTypes'
           /\ LockInv' /\ StuckOnlyByOpening' /\ ListenInv' /\ CameraInv' /\ RecorderInv'
<1> USE DEF IInv, TypeOK
<1>0. /\ mainPc' # "stuck" /\ StuckOnlyByOpening' /\ ListenInv'
      /\ surplus' = surplus /\ device' = device /\ alive
  BY DEF Idle, StuckOnlyByOpening, ListenInv, OpenCamera, cameras
<1>1. /\ RecorderInv'
      /\ alive' \in BOOLEAN
      /\ recorder' \in {"none", "initial", "unprepared", "prepared", "started"}
  BY DEF RecorderInv, OpenCamera, Idle, Crash, FragmentTypes
<1>2. /\ permits \in Nat /\ opens \in 0..MaxOpens /\ MaxOpens \in Nat /\ behind \subseteq 1..opens
      /\ camera \in [Opens -> {"none", "opening", "open", "closed", "left"}]
  BY DashCamAssumption DEF CameraTypes
<1>3. CASE UNCHANGED cameras /\ (~granted \/ (permits = 0 /\ Crash))
  <2>1. UNCHANGED <<permits, camera, opens, device, surplus, denied>>
    BY <1>3 DEF cameras
  <2>2. behind' = behind
    BY <1>2, <2>1
  <2>3. LockInv' /\ CameraTypes'
    BY <2>1, <2>2 DEF LockInv, CameraTypes
  <2>4. CameraInv'
    <3>1. CASE ~granted
      BY <1>0, <2>1, <2>2, <3>1 DEF CameraInv, Active
    <3>2. CASE Crash
      BY <3>2 DEF CameraInv, Crash
    <3> QED
      BY <1>3, <3>1, <3>2
  <2> QED
    BY <1>0, <1>1, <2>3, <2>4
<1>4. ASSUME surplus = 0, permits > 0
      PROVE  /\ permits = 1
             /\ \A o \in Opens : camera[o] # "opening" /\ (Active(o) => o \in behind)
  BY <1>0, <1>2, <1>4 DEF CameraInv, Active
<1>5. CASE /\ permits > 0
           /\ permits' = permits - 1
           /\ denied' = denied + 1
           /\ UNCHANGED <<camera, opens, device, surplus>> /\ granted
  <2>1. behind' = behind
    BY <1>2, <1>5
  <2>2. LockInv' /\ CameraTypes'
    BY <1>5, <2>1 DEF LockInv, CameraTypes
  <2>3. CameraInv'
    BY <1>4, <1>5, <2>1 DEF CameraInv, Active
  <2> QED
    BY <1>0, <1>1, <2>2, <2>3
<1>6. CASE /\ permits > 0 /\ opens < MaxOpens
           /\ permits' = permits - 1
           /\ opens' = opens + 1
           /\ camera' = [camera EXCEPT ![opens + 1] = "opening"]
           /\ UNCHANGED <<device, surplus, denied>> /\ granted
  <2>1. opens + 1 \in Opens /\ camera'[opens + 1] = "opening"
    BY <1>2, <1>6 DEF Opens
  <2>2. \A o \in Opens : o # opens + 1 => camera'[o] = camera[o]
    BY <1>2, <1>6
  <2>3. behind' = IF resumed' THEN behind ELSE behind \cup {opens + 1}
    <3>1. (opens + 1)..(opens + 1) = {opens + 1}
      BY <1>2
    <3> QED
      BY <1>6, <3>1
  <2>4. LockInv'
    BY <2>1 DEF LockInv
  <2>5. CameraTypes'
    <3>1. camera' \in [Opens -> {"none", "opening", "open", "closed", "left"}] /\ behind' \subseteq 1..opens'
      BY <1>2, <1>6, <2>1, <2>3
    <3> QED
      BY <1>2, <1>6, <3>1 DEF CameraTypes
  <2>6. CameraInv'
    <3>1. CASE surplus # 0
      BY <1>0, <3>1 DEF CameraInv
    <3>2. CASE surplus = 0
      <4>1. permits' = 0 /\ \A o \in Opens : o # opens + 1 => (Active(o) => o \in behind /\ camera[o] = "open")
        BY <1>4, <1>6, <3>2 DEF Active
      <4>2. \A o \in Opens : o # opens + 1 => Active(o)' = Active(o)
        BY <2>2 DEF Active
      <4>3. opens + 1 \notin behind' => resumed'
        BY <2>3
      <4>4. opens + 1 \in behind' => ~resumed'
        BY <1>2, <2>3
      <4>5. \A o \in Opens : o # opens + 1 => (o \in behind' <=> o \in behind)
        BY <2>3
      <4> QED
        <5>1. permits' \in {0, 1}
          BY <4>1
        <5>2. ASSUME NEW o \in Opens
              PROVE  /\ camera'[o] = "opening" => permits' = 0
                     /\ Active(o)' => granted'
                     /\ o \in behind' /\ camera'[o] = "opening" => ~(resumed' /\ texture')
                     /\ o \notin behind' /\ camera'[o] = "open" => device' = o
                     /\ o \notin behind' /\ Active(o)' => resumed' /\ texture'
          <6>1. CASE o = opens + 1
            BY <1>6, <2>1, <4>1, <4>3, <4>4, <6>1 DEF Active
          <6>2. CASE o # opens + 1
            <7>1. Active(o) => o \in behind' /\ camera'[o] = "open"
              BY <2>2, <4>1, <4>5, <6>2
            <7> QED
              BY <1>6, <4>1, <4>2, <6>2, <7>1 DEF Active
          <6> QED
            BY <6>1, <6>2
        <5>3. ASSUME NEW o \in Opens, NEW q \in Opens, camera'[o] = "opening", Active(q)'
              PROVE  o = q \/ (camera'[q] = "open" /\ q \in behind')
          <6>1. o = opens + 1
            BY <2>2, <4>1, <5>3 DEF Active
          <6>2. CASE q # opens + 1
            BY <2>2, <4>1, <4>2, <4>5, <5>3, <6>2
          <6>3. CASE q = opens + 1
            BY <6>1, <6>3
          <6> QED
            BY <6>2, <6>3
        <5> QED
          BY <5>1, <5>2, <5>3 DEF CameraInv
    <3> QED
      BY <3>1, <3>2
  <2> QED
    BY <1>0, <1>1, <2>4, <2>5, <2>6
<1>7. \/ UNCHANGED cameras /\ ~granted
      \/ UNCHANGED cameras /\ permits = 0 /\ Crash
      \/ /\ permits > 0
         /\ permits' = permits - 1
         /\ denied' = denied + 1
         /\ UNCHANGED <<camera, opens, device, surplus>> /\ granted
      \/ /\ permits > 0 /\ opens < MaxOpens
         /\ permits' = permits - 1
         /\ opens' = opens + 1
         /\ camera' = [camera EXCEPT ![opens + 1] = "opening"]
         /\ UNCHANGED <<device, surplus, denied>> /\ granted
  BY DEF OpenCamera
<1> QED
  BY <1>3, <1>5, <1>6, <1>7

\* The life cycle of the fragment.
LEMMA LifecycleKeeps ==
    ASSUME IInv,
           \/ Resume \/ TextureAvailable \/ TextureDestroyed \/ Grant
           \/ Pause \/ Stuck \/ PauseEnds \/ Recreate
    PROVE  IInv'
<1> USE DEF IInv, TypeOK, FragmentTypes
<1>1. CASE Resume
  <2>1. CASE texture
    <3>1. /\ Idle /\ OpenCamera /\ ~resumed /\ resumed' = TRUE /\ texture' = TRUE /\ mainPc' = mainPc
          /\ behind' = behind /\ granted' = granted
          /\ UNCHANGED <<isRecording, readingsPath>>
      BY <1>1, <2>1 DEF Resume, files
    <3>2. /\ UNCHANGED <<granted, finishing, texture, listening, capture, isRecording, files>>
          /\ mainPc' = mainPc /\ resumed' = TRUE
      BY <1>1, <2>1 DEF Resume
    <3>3. TypeOK'
      BY <3>1, <3>2, OpenCameraKeeps DEF CaptureTypes, FileTypes, capture, files
    <3> QED
      BY <3>1, <3>3, OpenCameraKeeps
  <2>2. CASE ~texture
    <3>1. /\ UNCHANGED <<alive, mainPc, granted, finishing, texture, behind, cameras, recorder, capture,
                         isRecording, files>>
          /\ resumed' = TRUE /\ listening' = TRUE /\ ~resumed /\ Idle
      BY <1>1, <2>2 DEF Resume
    <3>2. TypeOK'
      BY <3>1 DEF CameraTypes, CaptureTypes, FileTypes, cameras, capture, files
    <3>3. LockInv' /\ StuckOnlyByOpening'
      BY <3>1 DEF LockInv, StuckOnlyByOpening, cameras
    <3>4. CameraInv' /\ ListenInv' /\ RecorderInv'
      BY <2>2, <3>1 DEF CameraInv, Active, ListenInv, RecorderInv, cameras, files
    <3> QED
      BY <3>2, <3>3, <3>4
  <2> QED
    BY <2>1, <2>2
<1>2. CASE TextureAvailable
  <2>1. CASE listening
    <3>1. /\ Idle /\ OpenCamera /\ ~texture /\ texture' = TRUE /\ mainPc' = mainPc
          /\ resumed' = resumed /\ granted' = granted
          /\ behind' = IF resumed THEN behind ELSE behind \cup (opens + 1)..opens'
          /\ UNCHANGED <<isRecording, readingsPath>>
      BY <1>2, <2>1 DEF TextureAvailable, files
    <3>2. UNCHANGED <<mainPc, granted, resumed, finishing, listening, capture, isRecording, files>>
      BY <1>2, <2>1 DEF TextureAvailable
    <3>3. /\ alive' \in BOOLEAN
          /\ recorder' \in {"none", "initial", "unprepared", "prepared", "started"}
          /\ CameraTypes'
          /\ LockInv' /\ StuckOnlyByOpening' /\ ListenInv' /\ CameraInv' /\ RecorderInv'
      BY <3>1, OpenCameraKeeps
    <3>4. TypeOK'
      BY <3>1, <3>2, <3>3 DEF CaptureTypes, FileTypes, capture, files
    <3> QED
      BY <3>3, <3>4
  <2>2. CASE ~listening
    <3>1. /\ UNCHANGED <<alive, mainPc, granted, resumed, finishing, listening, cameras, recorder,
                         capture, isRecording, files>>
          /\ texture' = TRUE /\ ~texture
          /\ behind' = IF resumed THEN behind ELSE behind \cup (opens + 1)..opens'
      BY <1>2, <2>2 DEF TextureAvailable
    <3>2. ~resumed /\ ~resumed'
      BY <2>2, <3>1 DEF ListenInv
    <3>3. opens' = opens /\ opens \in Nat
      BY <3>1, DashCamAssumption DEF cameras, CameraTypes
    <3>4. behind' = behind
      BY <3>1, <3>3
    <3>5. TypeOK'
      BY <3>1, <3>4 DEF CameraTypes, CaptureTypes, FileTypes, cameras, capture, files
    <3>6. LockInv' /\ StuckOnlyByOpening'
      BY <3>1 DEF LockInv, StuckOnlyByOpening, cameras
    <3>7. CameraInv' /\ ListenInv' /\ RecorderInv'
      BY <3>1, <3>2, <3>4 DEF CameraInv, Active, ListenInv, RecorderInv, cameras, files
    <3> QED
      BY <3>5, <3>6, <3>7
  <2> QED
    BY <2>1, <2>2
<1>3. CASE TextureDestroyed \/ Grant
  <2>1. /\ UNCHANGED <<alive, mainPc, resumed, finishing, listening, behind, cameras, recorder, capture,
                       isRecording, files>>
        /\ texture' \in BOOLEAN /\ granted' \in BOOLEAN /\ ~resumed /\ (granted => granted')
    BY <1>3 DEF TextureDestroyed, Grant
  <2>2. TypeOK'
    BY <2>1 DEF CameraTypes, CaptureTypes, FileTypes, cameras, capture, files
  <2>3. LockInv' /\ StuckOnlyByOpening'
    BY <2>1 DEF LockInv, StuckOnlyByOpening, cameras
  <2>4. CameraInv' /\ ListenInv' /\ RecorderInv'
    BY <2>1 DEF CameraInv, Active, ListenInv, RecorderInv, cameras, files
  <2> QED
    BY <2>2, <2>3, <2>4
<1>4. CASE Pause
  <2>1. /\ camera' = Closing /\ device' = None /\ recorder' = "none" /\ session' = "none"
        /\ mainPc' = "joinBackground" /\ resumed' = FALSE /\ permits > 0 /\ permits \in Nat
        /\ UNCHANGED <<alive, granted, finishing, texture, listening, behind, permits, opens,
                       surplus, denied, pending, posted, backgroundPc, configuring, runnables,
                       orphaned, isRecording, files>>
    BY <1>4 DEF Pause, CameraTypes
  <2>2. /\ camera' \in [Opens -> {"none", "opening", "open", "closed", "left"}]
        /\ \A o \in Opens : camera'[o] = IF o = device THEN "closed" ELSE camera[o]
    <3>1. camera \in [Opens -> {"none", "opening", "open", "closed", "left"}]
      BY DEF CameraTypes
    <3>2. CASE device = None
      BY <2>1, <3>1, <3>2 DEF Closing, Opens, None
    <3>3. CASE device # None
      BY <2>1, <3>1, <3>3 DEF Closing
    <3> QED
      BY <3>2, <3>3
  <2>3. TypeOK'
    <3>1. CameraTypes'
      BY <2>1, <2>2 DEF CameraTypes
    <3>2. CaptureTypes'
      BY <2>1 DEF CaptureTypes
    <3>3. FileTypes'
      BY <2>1 DEF FileTypes, files
    <3>4. FragmentTypes'
      BY <2>1
    <3> QED
      BY <3>1, <3>2, <3>3, <3>4
  <2>4. LockInv' /\ StuckOnlyByOpening'
    BY <2>1 DEF LockInv, StuckOnlyByOpening
  <2>5. CameraInv'
    BY <2>1, <2>2 DEF CameraInv, Active, CameraTypes
  <2>6. RecorderInv' /\ ListenInv'
    BY <2>1 DEF RecorderInv, ListenInv, files
  <2> QED
    BY <2>3, <2>4, <2>5, <2>6
<1>5. CASE Stuck
  <2>1. UNCHANGED <<alive, lifecycle, cameras, recorder, capture, isRecording, files>> /\ permits = 0
        /\ mainPc' = "stuck"
    BY <1>5 DEF Stuck
  <2>2. TypeOK'
    BY <2>1 DEF CameraTypes, CaptureTypes, FileTypes, lifecycle, cameras, capture, files
  <2>3. LockInv' /\ StuckOnlyByOpening'
    BY <2>1 DEF LockInv, StuckOnlyByOpening, cameras
  <2>4. CameraInv' /\ ListenInv' /\ RecorderInv'
    BY <2>1 DEF CameraInv, Active, ListenInv, RecorderInv, cameras, files, lifecycle
  <2> QED
    BY <2>2, <2>3, <2>4
<1>6. CASE PauseEnds
  <2>1. /\ UNCHANGED <<alive, lifecycle, cameras, recorder, session, posted, backgroundPc, configuring,
                       runnables, orphaned, isRecording, files>>
        /\ mainPc' = "idle" /\ pending' = {}
    BY <1>6 DEF PauseEnds
  <2>2. TypeOK'
    BY <2>1 DEF CameraTypes, CaptureTypes, FileTypes, lifecycle, cameras, files
  <2>3. LockInv' /\ StuckOnlyByOpening'
    BY <2>1 DEF LockInv, StuckOnlyByOpening, cameras
  <2>4. CameraInv' /\ ListenInv' /\ RecorderInv'
    BY <2>1 DEF CameraInv, Active, ListenInv, RecorderInv, cameras, files, lifecycle
  <2> QED
    BY <2>2, <2>3, <2>4
<1>7. CASE Recreate
  <2>1. /\ permits' = 1 /\ device' = None /\ surplus' = 0 /\ denied' = 0
        /\ recorder' = "none" /\ session' = "none" /\ isRecording' = FALSE
        /\ finishing' = FALSE /\ texture' = FALSE /\ listening' = FALSE
        /\ camera' = [o \in Opens |-> IF camera[o] \in {"opening", "open"} THEN "left" ELSE camera[o]]
        /\ orphaned' = (orphaned \/ runnables > 0) /\ runnables' = 0 /\ posted' = {}
        /\ mainPc = "idle" /\ ~resumed
        /\ UNCHANGED <<alive, mainPc, granted, resumed, behind, opens, pending, backgroundPc,
                       configuring, files>>
    BY <1>7 DEF Recreate, Idle
  <2>2. /\ camera' \in [Opens -> {"none", "opening", "open", "closed", "left"}]
        /\ \A o \in Opens : camera'[o] \notin {"opening", "open"}
    BY <2>1 DEF CameraTypes
  <2>3. TypeOK'
    <3>1. CameraTypes'
      BY <2>1, <2>2 DEF CameraTypes
    <3>2. CaptureTypes'
      BY <2>1 DEF CaptureTypes
    <3>3. FileTypes'
      BY <2>1 DEF FileTypes, files
    <3>4. FragmentTypes'
      BY <2>1
    <3> QED
      BY <3>1, <3>2, <3>3, <3>4
  <2>4. LockInv' /\ StuckOnlyByOpening'
    BY <2>1 DEF LockInv, StuckOnlyByOpening
  <2>5. CameraInv' /\ ListenInv' /\ RecorderInv'
    BY <2>1, <2>2 DEF CameraInv, Active, ListenInv, RecorderInv
  <2> QED
    BY <2>3, <2>4, <2>5
<1> QED
  BY <1>1, <1>2, <1>3, <1>4, <1>5, <1>6, <1>7

\* The callbacks of a camera: onOpened(), and onDisconnected() or onError().
LEMMA CallbackKeeps ==
    ASSUME IInv, NEW o \in Opens, OnOpened(o) \/ OnDisconnected(o)
    PROVE  IInv'
<1> USE DEF IInv, TypeOK
<1>0. camera \in [Opens -> {"none", "opening", "open", "closed", "left"}] /\ permits \in Nat
  BY DEF CameraTypes
<1>1. CASE OnOpened(o)
  <2>1. /\ camera[o] = "opening" /\ alive /\ mainPc = "idle" /\ mainPc' = mainPc
        /\ camera' = [camera EXCEPT ![o] = "open"] /\ device' = o /\ permits' = permits + 1
        /\ session' \in {session, "none"}
        /\ pending' = pending \/ pending' = pending \cup {"preview"}
        /\ posted' = posted \/ posted' = posted \cup {o}
        /\ UNCHANGED <<alive, lifecycle, opens, surplus, denied, recorder, backgroundPc,
                       configuring, runnables, orphaned, isRecording, files>>
    BY <1>1 DEF OnOpened, Idle, StartPreview, Released
  <2>2. FragmentTypes'
    BY <2>1 DEF FragmentTypes, lifecycle
  <2>3. CameraTypes'
    BY <1>0, <2>1 DEF CameraTypes, lifecycle
  <2>4. CaptureTypes'
    BY <2>1 DEF CaptureTypes
  <2>5. FileTypes'
    BY <2>1 DEF FileTypes, files
  <2>6. LockInv' /\ StuckOnlyByOpening'
    BY <1>0, <2>1 DEF LockInv, StuckOnlyByOpening
  <2>7. CameraInv'
    BY <1>0, <2>1 DEF CameraInv, Active, lifecycle
  <2>8. RecorderInv' /\ ListenInv'
    BY <2>1 DEF RecorderInv, ListenInv, lifecycle, files
  <2> QED
    BY <2>2, <2>3, <2>4, <2>5, <2>6, <2>7, <2>8
<1>2. CASE OnDisconnected(o)
  <2>1. /\ camera[o] \in {"opening", "open"} /\ mainPc = "idle" /\ mainPc' = mainPc
        /\ camera' = [camera EXCEPT ![o] = "closed"] /\ device' = None /\ permits' = permits + 1
        /\ surplus' = IF camera[o] = "open" THEN surplus + 1 ELSE surplus
        /\ finishing' \in {finishing, TRUE}
        /\ UNCHANGED <<alive, granted, resumed, texture, listening, behind, opens, denied,
                       recorder, capture, isRecording, files>>
    BY <1>2 DEF OnDisconnected, Idle, Released
  <2>2. FragmentTypes'
    BY <2>1 DEF FragmentTypes
  <2>3. CameraTypes'
    BY <1>0, <2>1 DEF CameraTypes
  <2>4. CaptureTypes' /\ FileTypes'
    BY <2>1 DEF CaptureTypes, FileTypes, capture, files
  <2>5. LockInv' /\ StuckOnlyByOpening'
    BY <1>0, <2>1 DEF LockInv, StuckOnlyByOpening
  <2>6. CameraInv'
    <3>1. CASE camera[o] = "open"
      BY <2>1, <3>1 DEF CameraInv, CameraTypes
    <3>2. CASE camera[o] = "opening"
      BY <1>0, <2>1, <3>2 DEF CameraInv, Active
    <3> QED
      BY <2>1, <3>1, <3>2
  <2>7. RecorderInv' /\ ListenInv'
    BY <2>1 DEF RecorderInv, ListenInv, files
  <2> QED
    BY <2>2, <2>3, <2>4, <2>5, <2>6, <2>7
<1> QED
  BY <1>1, <1>2

\* The background thread, which only configures capture sessions, and the main thread
\* when it does so.
LEMMA BackgroundKeeps ==
    ASSUME IInv, NEW kind \in {"preview", "record"},
           \/ OnConfigured(kind) \/ OnConfigureFailed(kind) \/ \E o \in Opens : OnConfiguredOnMain(o)
           \/ NoDeviceToUpdate \/ CheckDevice \/ SetRepeatingRequest
    PROVE  IInv'
<1> USE DEF IInv, TypeOK
<1>1. /\ alive /\ alive' \in BOOLEAN /\ mainPc' = mainPc
      /\ UNCHANGED <<lifecycle, cameras, recorder, isRecording, files>>
  BY DEF OnConfigured, OnConfigureFailed, NoDeviceToUpdate, CheckDevice, SetRepeatingRequest,
         OnConfiguredOnMain, Idle, Configured, Crash, FragmentTypes
<1>2. FragmentTypes' /\ CameraTypes' /\ FileTypes'
  BY <1>1 DEF FragmentTypes, CameraTypes, FileTypes, lifecycle, cameras, files
<1>3. CaptureTypes'
  <2>1. CASE OnConfigured(kind) \/ OnConfigureFailed(kind)
    BY <2>1 DEF OnConfigured, OnConfigureFailed, CaptureTypes
  <2>2. CASE CheckDevice \/ \E o \in Opens : OnConfiguredOnMain(o)
    BY <2>2 DEF CheckDevice, OnConfiguredOnMain, CaptureTypes
  <2>3. CASE Configured
    BY <2>3 DEF Configured, CaptureTypes
  <2> QED
    BY <2>1, <2>2, <2>3 DEF NoDeviceToUpdate, SetRepeatingRequest
<1>4. LockInv' /\ StuckOnlyByOpening' /\ ListenInv' /\ CameraInv' /\ RecorderInv'
  BY <1>1, QuietKeeps DEF files
<1> QED
  BY <1>2, <1>3, <1>4

\* A thread that looks at the name of the readings file or writes a line to it.
LEMMA LineKeeps ==
    ASSUME IInv, NEW i \in 1..MaxAttempts, CheckPath(i) \/ WriteLine(i)
    PROVE  IInv'
<1> USE DEF IInv, TypeOK
<1>1. /\ alive /\ alive' \in BOOLEAN /\ mainPc' = mainPc
      /\ UNCHANGED <<lifecycle, cameras, recorder, capture, isRecording, readingsPath, recordings>>
  <2>1. CASE CheckPath(i)
    BY <2>1 DEF CheckPath, FragmentTypes
  <2>2. CASE WriteLine(i)
    BY <2>2 DEF WriteLine, Crash, Session!Report, Session!ReportFails, Session!Crash, Session!AtReader, FragmentTypes
  <2> QED
    BY <2>1, <2>2
<1>2. FragmentTypes' /\ CameraTypes' /\ CaptureTypes'
  BY <1>1 DEF FragmentTypes, CameraTypes, CaptureTypes, lifecycle, cameras, capture
<1>3. FileTypes'
  <2>1. /\ checked \in [1..MaxAttempts -> 0..recordings] /\ late \in [Recordings -> Nat]
        /\ readingsPath \in 0..recordings /\ recordings \in 0..MaxRecordings
    BY DEF FileTypes
  <2>2. CASE CheckPath(i)
    BY <1>1, <2>1, <2>2 DEF CheckPath, FileTypes
  <2>3. CASE WriteLine(i)
    <3>1. PICK path \in {checked[i], readingsPath} :
            late' = IF path \in {None, readingsPath} THEN late ELSE [late EXCEPT ![path] = @ + 1]
      BY <2>3 DEF WriteLine
    <3>2. 0 \in 0..recordings
      BY <2>1, DashCamAssumption
    <3>3. checked' \in [1..MaxAttempts -> 0..recordings]
      BY <2>1, <2>3, <3>2 DEF WriteLine, AfterWrite, None
    <3>4. late' \in [Recordings -> Nat]
      <4>1. CASE path \in {None, readingsPath}
        BY <2>1, <3>1, <4>1
      <4>2. CASE path \notin {None, readingsPath}
        <5>1. path \in Recordings
          BY <2>1, <4>2, DashCamAssumption DEF Recordings, None
        <5> QED
          BY <2>1, <3>1, <4>2, <5>1
      <4> QED
        BY <4>1, <4>2
    <3> QED
      BY <1>1, <2>1, <3>3, <3>4 DEF FileTypes
  <2> QED
    BY <2>2, <2>3
<1>4. LockInv' /\ StuckOnlyByOpening' /\ ListenInv' /\ CameraInv' /\ RecorderInv'
  BY <1>1, QuietKeeps
<1> QED
  BY <1>2, <1>3, <1>4

\* The buttons, and the runnable that starts the recorder.
LEMMA ClickKeeps ==
    ASSUME IInv, StartRecording \/ StartRecorder \/ StartOrphaned \/ StopRecording
    PROVE  IInv'
<1> USE DEF IInv, TypeOK
<1>1. /\ alive /\ mainPc = "idle" /\ UNCHANGED <<mainPc, lifecycle, cameras, checked, late>>
      /\ alive' \in BOOLEAN /\ isRecording' \in BOOLEAN
  BY DEF StartRecording, StartRecorder, StartOrphaned, StopRecording, Idle, Crash, files, FragmentTypes
<1>2. recorder' \in {"none", "initial", "unprepared", "prepared", "started"}
  BY DEF StartRecording, StartRecorder, StartOrphaned, StopRecording, FragmentTypes
<1>3. FragmentTypes' /\ CameraTypes'
  BY <1>1, <1>2 DEF FragmentTypes, CameraTypes, lifecycle, cameras
<1>4. CaptureTypes'
  <2>1. CASE StartRecording
    BY <2>1 DEF StartRecording, CaptureTypes
  <2>2. CASE StartRecorder \/ StartOrphaned
    <3>1. runnables \in Nat
      BY DEF CaptureTypes
    <3>2. runnables' \in Nat /\ UNCHANGED <<session, pending, posted, backgroundPc, configuring, orphaned>>
      BY <2>2, <3>1 DEF StartRecorder, StartOrphaned, capture
    <3> QED
      BY <3>2 DEF CaptureTypes
  <2>3. CASE StopRecording
    <3>1. /\ session' \in {session, "none"}
          /\ pending' = pending \/ pending' = pending \cup {"preview"}
          /\ UNCHANGED <<posted, backgroundPc, configuring, runnables, orphaned>>
      BY <2>3 DEF StopRecording, StartPreview
    <3> QED
      BY <3>1 DEF CaptureTypes
  <2> QED
    BY <2>1, <2>2, <2>3
<1>5. FileTypes'
  <2>1. /\ checked \in [1..MaxAttempts -> 0..recordings] /\ late \in [Recordings -> Nat]
        /\ readingsPath \in 0..recordings /\ recordings \in 0..MaxRecordings
    BY DEF FileTypes
  <2>2. recordings' \in 0..MaxRecordings /\ readingsPath' \in 0..recordings'
        /\ recordings <= recordings'
    BY <2>1, DashCamAssumption
       DEF StartRecording, StartRecorder, StartOrphaned, StopRecording, NamedFile, PathAfterStop, None, files
  <2>3. checked \in [1..MaxAttempts -> 0..recordings']
    BY <2>1, <2>2
  <2> QED
    BY <1>1, <2>1, <2>2, <2>3 DEF FileTypes
<1>6. LockInv' /\ StuckOnlyByOpening' /\ ListenInv' /\ CameraInv'
  BY <1>1 DEF LockInv, StuckOnlyByOpening, ListenInv, CameraInv, Active, lifecycle, cameras
<1>7. RecorderInv'
  <2>1. CASE StartRecording
    BY <1>1, <2>1 DEF StartRecording, NamedFile, None, Crash, RecorderInv, FileTypes
  <2>2. CASE StartRecorder \/ StartOrphaned
    BY <1>1, <2>2 DEF StartRecorder, StartOrphaned, Crash, RecorderInv, files
  <2>3. CASE StopRecording
    BY <1>1, <2>3 DEF StopRecording, Crash, RecorderInv
  <2> QED
    BY <2>1, <2>2, <2>3
<1> QED
  BY <1>3, <1>4, <1>5, <1>6, <1>7

LEMMA StepIInv == IInv /\ [Next]_vars => IInv'
<1> SUFFICES ASSUME IInv, [Next]_vars
             PROVE  IInv'
  OBVIOUS
<1>1. CASE \/ Resume \/ TextureAvailable \/ TextureDestroyed \/ Grant
           \/ Pause \/ Stuck \/ PauseEnds \/ Recreate
  BY <1>1, LifecycleKeeps
<1>2. ASSUME NEW o \in Opens, OnOpened(o) \/ OnDisconnected(o)
      PROVE  IInv'
  BY <1>2, CallbackKeeps
<1>3. ASSUME NEW kind \in {"preview", "record"}, OnConfigured(kind) \/ OnConfigureFailed(kind)
      PROVE  IInv'
  BY <1>3, BackgroundKeeps
<1>4. CASE \/ NoDeviceToUpdate \/ CheckDevice \/ SetRepeatingRequest
           \/ \E o \in Opens : OnConfiguredOnMain(o)
  BY <1>4, BackgroundKeeps
<1>5. CASE StartRecording \/ StartRecorder \/ StartOrphaned \/ StopRecording
  BY <1>5, ClickKeeps
<1>6. ASSUME Connect \/ SessionStep \/ \E i \in 1..MaxAttempts : NoFile(i)
      PROVE  IInv'
  <2>1. /\ alive /\ alive' \in BOOLEAN
        /\ mainPc' \in {mainPc, "idle", "join", "sleep"}
        /\ UNCHANGED <<lifecycle, cameras, recorder, capture, isRecording, files>>
    BY <1>6, SessionKeeps
  <2>2. FragmentTypes' /\ CameraTypes' /\ CaptureTypes' /\ FileTypes'
    BY <2>1 DEF IInv, TypeOK, FragmentTypes, CameraTypes, CaptureTypes, FileTypes,
                lifecycle, cameras, capture, files
  <2>3. LockInv' /\ StuckOnlyByOpening' /\ ListenInv' /\ CameraInv' /\ RecorderInv'
    BY <2>1, QuietKeeps DEF files
  <2> QED
    BY <2>2, <2>3 DEF IInv, TypeOK
<1>7. ASSUME NEW i \in 1..MaxAttempts, CheckPath(i) \/ WriteLine(i)
      PROVE  IInv'
  BY <1>7, LineKeeps
<1>8. CASE UNCHANGED vars
  <2>1. FragmentTypes' /\ CameraTypes' /\ CaptureTypes' /\ FileTypes'
    BY <1>8 DEF IInv, TypeOK, FragmentTypes, CameraTypes, CaptureTypes, FileTypes, vars,
                lifecycle, cameras, capture, files
  <2>2. LockInv' /\ StuckOnlyByOpening' /\ ListenInv' /\ CameraInv' /\ RecorderInv'
    BY <1>8 DEF IInv, LockInv, StuckOnlyByOpening, ListenInv, CameraInv, Active, RecorderInv, vars,
                lifecycle, cameras, files
  <2> QED
    BY <2>1, <2>2 DEF IInv, TypeOK
<1> QED
  BY <1>1, <1>2, <1>3, <1>4, <1>5, <1>6, <1>7, <1>8 DEF Next

\* The inductive invariant holds in every state.
THEOREM Invariance == Spec => []IInv
<1> QED
  BY InitIInv, StepIInv, PTL DEF Spec

\* Every variable keeps its type, with any number of attempts, openings and recordings.
THEOREM TypeCorrect == Spec => []TypeOK
<1>1. IInv => TypeOK
  BY DEF IInv
<1> QED
  BY <1>1, Invariance, PTL

\* onPause() leaves no camera open behind the user's back that a resumed fragment has
\* opened, as long as the lock has not been released by a callback of a camera that had
\* been opened already.
THEOREM BackgroundCamera == Spec => []BackgroundCameraIsClosed
<1>1. IInv => BackgroundCameraIsClosed
  BY DEF IInv, CameraInv, BackgroundCameraIsClosed, Active
<1> QED
  BY <1>1, Invariance, PTL

\* closeCamera() blocks the main thread for ever only while a camera is being opened,
\* or after openCamera() has thrown.
THEOREM MainThreadWait == Spec => []StuckOnlyByOpening
<1>1. IInv => StuckOnlyByOpening
  BY DEF IInv
<1> QED
  BY <1>1, Invariance, PTL

\* While mIsRecordingVideo is set the readings have a file.
THEOREM Readings == Spec => []RecordingHasReadings
<1>1. IInv => RecordingHasReadings
  BY DEF IInv, RecorderInv, RecordingHasReadings
<1> QED
  BY <1>1, Invariance, PTL

-----------------------------------------------------------------------------
(* Lines that come too late *)

\* The threads that have found the name of recording k and not written yet.
Writing(k) == {i \in 1..MaxAttempts : checked[i] = k}

\* Threads belong to attempts that have been made.
ThreadInv ==
    /\ attempts \in 0..MaxAttempts /\ mBTSocket \in 0..attempts
    /\ DOMAIN reader = 1..MaxAttempts
    /\ \A i \in 1..MaxAttempts : reader[i] # "none" \/ checked[i] # None => i <= attempts

\* A thread that has found the name of a file writes one line to it at the most:
\* those that still may and the late lines together are no more than the threads.
LateInv ==
    /\ \A k \in Recordings : k = readingsPath \/ k > recordings => late[k] = 0
    /\ \A k \in Recordings : k # readingsPath => late[k] + Cardinality(Writing(k)) <= attempts

LEMMA WritingIsFinite ==
    ASSUME NEW k
    PROVE  IsFiniteSet(Writing(k)) /\ Cardinality(Writing(k)) \in Nat
<1>1. IsFiniteSet(1..MaxAttempts)
  BY FS_Interval, DashCamAssumption
<1>2. Writing(k) \subseteq 1..MaxAttempts
  BY DEF Writing
<1> QED
  BY <1>1, <1>2, FS_Subset, FS_CardinalityType

\* However many threads have found the name, they are no more than the attempts.
LEMMA WritingIsBounded ==
    ASSUME ThreadInv, NEW k, k # None
    PROVE  Cardinality(Writing(k)) <= attempts
<1>1. attempts \in Nat
  BY DashCamAssumption DEF ThreadInv
<1>2. IsFiniteSet(1..attempts) /\ Cardinality(1..attempts) = attempts
  BY <1>1, FS_Interval
<1>3. Writing(k) \subseteq 1..attempts
  BY <1>1, DashCamAssumption DEF ThreadInv, Writing
<1> QED
  BY <1>2, <1>3, FS_Subset, ZenonT(30)

\* The session changes no name and no line, and makes threads of attempts only.
LEMMA SessionKeepsThreads ==
    ASSUME ThreadInv, Connect \/ SessionStep \/ \E i \in 1..MaxAttempts : NoFile(i)
    PROVE  ThreadInv' /\ attempts <= attempts' /\ UNCHANGED files
<1> USE DashCamAssumption DEF ThreadInv
<1>1. UNCHANGED files
  BY DEF Connect, SessionStep, NoFile
<1>2. checked' = checked
  BY <1>1 DEF files
<1>3. CASE Connect
  <2>1. attempts' = attempts + 1 /\ attempts < MaxAttempts /\ mBTSocket' = attempts' /\ reader' = reader
    BY <1>3 DEF Connect, Session!UserStep, Session!Connect
  <2> QED
    BY <1>1, <1>2, <2>1
<1>4. CASE SessionStep /\ Session!Connected
  <2>1. /\ attempts' = attempts /\ mBTSocket' = mBTSocket
        /\ reader' = reader \/ reader' = [reader EXCEPT ![mBTSocket] = "reading"]
    BY <1>4 DEF Session!Connected
  <2> QED
    BY <1>1, <1>2, <2>1
<1>5. CASE SessionStep /\ Session!JoinEnds
  <2>1. attempts' = attempts /\ mBTSocket' = mBTSocket /\ reader' = reader
    BY <1>5 DEF Session!JoinEnds
  <2> QED
    BY <1>1, <1>2, <2>1
<1>6. ASSUME NEW i \in 1..MaxAttempts, Session!ConnectStep(i) \/ Session!LinkDrops(i)
      PROVE  ThreadInv' /\ attempts <= attempts'
  <2>1. attempts' = attempts /\ mBTSocket' = mBTSocket /\ reader' = reader
    BY <1>6 DEF Session!ConnectStep, Session!PickUpSocket, Session!ConnectSucceeds, Session!ConnectFails,
                Session!NoSocket, Session!Settle, Session!Initialised, Session!AtConnect, Session!LinkDrops
  <2> QED
    BY <1>2, <2>1
<1>7. ASSUME NEW i \in 1..MaxAttempts,
             \/ Session!Collect(i) \/ Session!Report(i) \/ Session!ReadFails(i)
             \/ Session!ConnectionLost(i) \/ Session!Unexpected(i)
      PROVE  ThreadInv' /\ attempts <= attempts'
  <2>1. /\ attempts' = attempts /\ mBTSocket' = mBTSocket /\ reader[i] # "none"
        /\ \E next : reader' = [reader EXCEPT ![i] = next]
    BY <1>7 DEF Session!Collect, Session!Report, Session!ReadFails, Session!ConnectionLost,
                Session!Unexpected, Session!AtReader
  <2> QED
    BY <1>2, <2>1
<1> QED
  BY <1>1, <1>3, <1>4, <1>5, <1>6, <1>7 DEF SessionStep, Session!MainStep, NoFile

\* Steps that leave names, lines and threads as they are.
LEMMA NoLineKeeps ==
    ASSUME ThreadInv, LateInv, UNCHANGED <<sessionVars, files>>
    PROVE  ThreadInv' /\ LateInv'
<1>1. UNCHANGED <<attempts, mBTSocket, reader, readingsPath, recordings, checked, late>>
  BY DEF sessionVars, files
<1>2. \A k : Writing(k)' = Writing(k)
  BY <1>1 DEF Writing
<1> QED
  BY <1>1, <1>2 DEF ThreadInv, LateInv

LEMMA ClickKeepsLines ==
    ASSUME FileTypes, ThreadInv, LateInv, StartRecording \/ StopRecording
    PROVE  ThreadInv' /\ LateInv'
<1>1. UNCHANGED <<attempts, mBTSocket, reader, checked, late>>
  BY DEF StartRecording, StopRecording, sessionVars
<1>2. ThreadInv'
  BY <1>1 DEF ThreadInv
<1>3. \/ readingsPath' = readingsPath /\ recordings' = recordings
      \/ readingsPath' = recordings + 1 /\ recordings' = recordings + 1
      \/ readingsPath' = None /\ recordings' = recordings
  BY DEF StartRecording, StopRecording, NamedFile, PathAfterStop
<1>4. recordings \in Nat /\ recordings \in 0..MaxRecordings /\ attempts \in Nat
  BY DashCamAssumption DEF FileTypes, ThreadInv
<1>5. \A k : Writing(k)' = Writing(k)
  BY <1>1 DEF Writing
<1>6. ASSUME NEW k \in Recordings
      PROVE  /\ k = readingsPath' \/ k > recordings' => late'[k] = 0
             /\ k # readingsPath' => late'[k] + Cardinality(Writing(k)') <= attempts'
  <2>1. k \in Nat /\ k # None
    BY DashCamAssumption DEF Recordings, None
  <2>2. k = readingsPath' \/ k > recordings' => late'[k] = 0
    BY <1>1, <1>3, <1>4, <2>1 DEF LateInv
  <2>3. ASSUME k # readingsPath' PROVE late[k] + Cardinality(Writing(k)) <= attempts
    <3>1. CASE k = readingsPath
      <4>1. late[k] = 0
        BY <3>1 DEF LateInv
      <4> QED
        BY <1>4, <2>1, <4>1, WritingIsBounded, WritingIsFinite
    <3>2. CASE k # readingsPath
      BY <3>2 DEF LateInv
    <3> QED
      BY <3>1, <3>2
  <2> QED
    BY <1>1, <1>5, <2>2, <2>3
<1> QED
  BY <1>2, <1>6 DEF LateInv

LEMMA LineKeepsLines ==
    ASSUME FileTypes, ThreadInv, LateInv, NEW i \in 1..MaxAttempts, CheckPath(i) \/ WriteLine(i)
    PROVE  ThreadInv' /\ LateInv'
<1>1. /\ UNCHANGED <<attempts, mBTSocket, readingsPath, recordings>> /\ reader[i] # "none"
      /\ reader' = reader \/ \E next : reader' = [reader EXCEPT ![i] = next]
  <2>1. CASE CheckPath(i)
    BY <2>1 DEF CheckPath, sessionVars
  <2>2. CASE WriteLine(i)
    BY <2>2 DEF WriteLine, Session!Report, Session!ReportFails, Session!AtReader
  <2> QED
    BY <2>1, <2>2
<1>2. /\ checked \in [1..MaxAttempts -> 0..recordings] /\ late \in [Recordings -> Nat]
      /\ recordings \in 0..MaxRecordings /\ attempts \in Nat
  BY DashCamAssumption DEF FileTypes, ThreadInv
<1>3. \E path : checked' = [checked EXCEPT ![i] = path]
  BY DEF CheckPath, WriteLine
<1>4. ThreadInv'
  <2>1. DOMAIN reader' = 1..MaxAttempts /\ \A j \in 1..MaxAttempts : j = i \/ reader'[j] = reader[j]
    BY <1>1 DEF ThreadInv
  <2>2. \A j \in 1..MaxAttempts : j = i \/ checked'[j] = checked[j]
    BY <1>2, <1>3
  <2>3. i <= attempts
    BY <1>1 DEF ThreadInv
  <2> QED
    BY <1>1, <2>1, <2>2, <2>3 DEF ThreadInv
<1>5. ASSUME NEW k \in Recordings, k = readingsPath \/ k > recordings
      PROVE  late'[k] = 0
  <2>1. late[k] = 0
    BY <1>5 DEF LateInv
  <2>2. CASE CheckPath(i)
    BY <2>1, <2>2 DEF CheckPath
  <2>3. CASE WriteLine(i)
    <3>1. PICK path \in {checked[i], readingsPath} :
            late' = IF path \in {None, readingsPath} THEN late ELSE [late EXCEPT ![path] = @ + 1]
      BY <2>3 DEF WriteLine
    <3>2. path = readingsPath \/ path # k
      BY <1>2, <1>5, <3>1, DashCamAssumption DEF Recordings
    <3> QED
      BY <1>2, <2>1, <3>1, <3>2
  <2> QED
    BY <2>2, <2>3
<1>6. ASSUME NEW k \in Recordings, k # readingsPath
      PROVE  late'[k] + Cardinality(Writing(k)') <= attempts
  <2>1. k # None
    BY DashCamAssumption DEF Recordings, None
  <2>2. late[k] + Cardinality(Writing(k)) <= attempts
    BY <1>6 DEF LateInv
  <2>3. CASE CheckPath(i)
    <3>1. checked[i] = None /\ checked' = [checked EXCEPT ![i] = readingsPath] /\ late' = late
      BY <2>3 DEF CheckPath
    <3>2. Writing(k)' = Writing(k)
      BY <1>2, <1>6, <2>1, <3>1 DEF Writing
    <3> QED
      BY <2>2, <3>1, <3>2
  <2>4. CASE WriteLine(i)
    <3>1. checked' = [checked EXCEPT ![i] = None]
      BY <2>4 DEF WriteLine, AfterWrite
    <3>2. PICK path \in {checked[i], readingsPath} :
            late' = IF path \in {None, readingsPath} THEN late ELSE [late EXCEPT ![path] = @ + 1]
      BY <2>4 DEF WriteLine
    <3>3. CASE checked[i] = k
      <4>1. Writing(k)' = Writing(k) \ {i} /\ i \in Writing(k)
        BY <1>2, <2>1, <3>1, <3>3 DEF Writing
      <4>2. Cardinality(Writing(k)') = Cardinality(Writing(k)) - 1
        BY <4>1, WritingIsFinite, FS_RemoveElement
      <4>3. late'[k] = late[k] \/ late'[k] = late[k] + 1
        BY <1>2, <1>6, <3>2, <3>3
      <4>4. Cardinality(Writing(k)) \in Nat /\ late[k] \in Nat
        BY <1>2, WritingIsFinite
      <4> QED
        BY <1>2, <2>2, <4>2, <4>3, <4>4
    <3>4. CASE checked[i] # k
      <4>1. Writing(k)' = Writing(k)
        BY <1>2, <2>1, <3>1, <3>4 DEF Writing
      <4>2. late'[k] = late[k]
        BY <1>2, <1>6, <3>2, <3>4
      <4> QED
        BY <2>2, <4>1, <4>2
    <3> QED
      BY <3>3, <3>4
  <2> QED
    BY <2>3, <2>4
<1> QED
  BY <1>1, <1>4, <1>5, <1>6 DEF LateInv

LEMMA LinesAreKept == TypeOK /\ ThreadInv /\ LateInv /\ [Next]_vars => (ThreadInv /\ LateInv)'
<1> SUFFICES ASSUME TypeOK, ThreadInv, LateInv, [Next]_vars
             PROVE  (ThreadInv /\ LateInv)'
  OBVIOUS
<1>1. CASE \/ Resume \/ TextureAvailable \/ TextureDestroyed \/ Grant
           \/ Pause \/ Stuck \/ PauseEnds \/ Recreate
  BY <1>1, NoLineKeeps DEF Resume, TextureAvailable, TextureDestroyed, Grant, Pause, Stuck, PauseEnds, Recreate, Survives
<1>2. ASSUME NEW o \in Opens, OnOpened(o) \/ OnDisconnected(o)
      PROVE  ThreadInv' /\ LateInv'
  BY <1>2, NoLineKeeps DEF OnOpened, OnDisconnected
<1>3. ASSUME NEW kind \in {"preview", "record"}, OnConfigured(kind) \/ OnConfigureFailed(kind)
      PROVE  ThreadInv' /\ LateInv'
  BY <1>3, NoLineKeeps DEF OnConfigured, OnConfigureFailed
<1>4. CASE \/ NoDeviceToUpdate \/ CheckDevice \/ SetRepeatingRequest \/ StartRecorder \/ StartOrphaned
           \/ \E o \in Opens : OnConfiguredOnMain(o)
  BY <1>4, NoLineKeeps DEF NoDeviceToUpdate, CheckDevice, SetRepeatingRequest, Configured, StartRecorder,
                           StartOrphaned, OnConfiguredOnMain
<1>5. CASE StartRecording \/ StopRecording
  BY <1>5, ClickKeepsLines DEF TypeOK
<1>6. CASE Connect \/ SessionStep \/ \E i \in 1..MaxAttempts : NoFile(i)
  <2>1. ThreadInv' /\ attempts <= attempts' /\ UNCHANGED files
    BY <1>6, SessionKeepsThreads
  <2>2. UNCHANGED <<readingsPath, recordings, checked, late>>
    BY <2>1 DEF files
  <2>3. \A k : Writing(k)' = Writing(k)
    BY <2>2 DEF Writing
  <2>4. attempts \in Nat /\ attempts' \in Nat /\ late \in [Recordings -> Nat]
    BY <2>1, DashCamAssumption DEF ThreadInv, TypeOK, FileTypes
  <2>5. ASSUME NEW k \in Recordings, k # readingsPath
        PROVE  late[k] + Cardinality(Writing(k)) <= attempts'
    BY <2>1, <2>4, <2>5, WritingIsFinite DEF LateInv
  <2> QED
    BY <2>1, <2>2, <2>3, <2>5 DEF LateInv
<1>7. ASSUME NEW i \in 1..MaxAttempts, CheckPath(i) \/ WriteLine(i)
      PROVE  ThreadInv' /\ LateInv'
  BY <1>7, LineKeepsLines DEF TypeOK
<1>8. CASE UNCHANGED vars
  BY <1>8, NoLineKeeps DEF vars
<1> QED
  BY <1>1, <1>2, <1>3, <1>4, <1>5, <1>6, <1>7, <1>8 DEF Next

LEMMA NoLinesAtFirst == Init => ThreadInv /\ LateInv
<1> SUFFICES ASSUME Init PROVE ThreadInv /\ LateInv
  OBVIOUS
<1>1. /\ attempts = 0 /\ mBTSocket = 0 /\ reader = [i \in 1..MaxAttempts |-> "none"]
      /\ checked = [i \in 1..MaxAttempts |-> None] /\ late = [k \in Recordings |-> 0]
  BY DEF Init, Session!Init, Session!Attempts, Session!Nobody
<1>2. ThreadInv
  BY <1>1, DashCamAssumption DEF ThreadInv
<1>3. ASSUME NEW k \in Recordings PROVE late[k] = 0 /\ Cardinality(Writing(k)) <= attempts
  BY <1>1, <1>2, WritingIsBounded, DashCamAssumption DEF Recordings, None
<1>4. ASSUME NEW k \in Recordings PROVE late[k] + Cardinality(Writing(k)) <= attempts
  BY <1>1, <1>3, WritingIsFinite
<1> QED
  BY <1>2, <1>3, <1>4 DEF LateInv

\* Once a recording is over at most one line of each attempt's thread still goes to
\* its file, for any number of attempts and recordings.
THEOREM LateLines == Spec => []LateLinesBounded
<1>1. TypeOK /\ ThreadInv /\ LateInv => LateLinesBounded
  <2> SUFFICES ASSUME TypeOK, ThreadInv, LateInv, NEW k \in Recordings PROVE late[k] <= attempts
    BY DEF LateLinesBounded
  <2>1. attempts \in Nat /\ late[k] \in Nat /\ Cardinality(Writing(k)) \in Nat
    BY DashCamAssumption, WritingIsFinite DEF ThreadInv, TypeOK, FileTypes
  <2> QED
    BY <2>1 DEF LateInv
<1>2. Spec => [](ThreadInv /\ LateInv)
  BY NoLinesAtFirst, LinesAreKept, TypeCorrect, PTL DEF Spec
<1> QED
  BY <1>1, <1>2, TypeCorrect, PTL

-----------------------------------------------------------------------------
(* The session beside the camera is the session alone *)

LEMMA AtSessionIs ==
    /\ mainPc \in {"idle", "join", "sleep"} => AtSession = mainPc
    /\ mainPc' \in {"idle", "join", "sleep"} => AtSession' = mainPc'
    /\ AtSession \in {"join", "sleep"} => mainPc = AtSession
    /\ mainPc' = mainPc => AtSession' = AtSession
  BY DEF AtSession

\* A step of the fragment changes nothing of the session, or ends the process.
LEMMA FragmentStep ==
    ASSUME UNCHANGED sessionVars, AtSession' = AtSession, alive' = alive \/ (alive /\ Crash)
    PROVE  Alone!Ended \/ UNCHANGED Alone!vars
  BY DEF Alone!Ended, Alone!Crash, Alone!vars, Alone!threads, sessionVars, Crash

LEMMA FragmentIsQuiet ==
    ASSUME \/ Resume \/ TextureAvailable \/ TextureDestroyed \/ Grant
           \/ \E o \in Opens : OnOpened(o) \/ OnDisconnected(o) \/ OnConfiguredOnMain(o)
           \/ Pause \/ Stuck \/ PauseEnds \/ Recreate
           \/ \E kind \in {"preview", "record"} : OnConfigured(kind) \/ OnConfigureFailed(kind)
           \/ NoDeviceToUpdate \/ CheckDevice \/ SetRepeatingRequest
           \/ StartRecording \/ StartRecorder \/ StartOrphaned \/ StopRecording
           \/ \E i \in 1..MaxAttempts : CheckPath(i)
    PROVE  UNCHANGED sessionVars /\ AtSession' = AtSession /\ (alive' = alive \/ (alive /\ Crash))
<1>1. CASE Resume \/ TextureAvailable
  <2>1. OpenCamera => alive' = alive \/ Crash
    BY DEF OpenCamera
  <2>2. UNCHANGED sessionVars /\ mainPc' = mainPc /\ alive /\ (alive' = alive \/ Crash)
    BY <1>1, <2>1 DEF Resume, TextureAvailable, Idle
  <2> QED
    BY <2>2, AtSessionIs
<1>2. CASE TextureDestroyed \/ Grant \/ Recreate
  <2>1. UNCHANGED sessionVars /\ mainPc' = mainPc /\ alive' = alive
    BY <1>2 DEF TextureDestroyed, Grant, Recreate, Survives
  <2> QED
    BY <2>1, AtSessionIs
<1>3. CASE Pause \/ Stuck \/ PauseEnds
  <2>1. /\ UNCHANGED sessionVars /\ alive' = alive
        /\ mainPc \in {"idle", "joinBackground"} /\ mainPc' \in {"idle", "joinBackground", "stuck"}
    BY <1>3 DEF Pause, Stuck, PauseEnds, Idle
  <2> QED
    BY <2>1 DEF AtSession
<1>4. CASE \E o \in Opens : OnOpened(o) \/ OnDisconnected(o)
  <2>1. UNCHANGED sessionVars /\ mainPc' = mainPc /\ alive' = alive
    BY <1>4 DEF OnOpened, OnDisconnected
  <2> QED
    BY <2>1, AtSessionIs
<1>5. CASE \/ \E kind \in {"preview", "record"} : OnConfigured(kind) \/ OnConfigureFailed(kind)
           \/ NoDeviceToUpdate \/ CheckDevice \/ SetRepeatingRequest
           \/ \E o \in Opens : OnConfiguredOnMain(o)
  <2>1. UNCHANGED sessionVars /\ mainPc' = mainPc /\ alive /\ (alive' = alive \/ Crash)
    BY <1>5 DEF OnConfigured, OnConfigureFailed, NoDeviceToUpdate, CheckDevice, SetRepeatingRequest, Configured,
                OnConfiguredOnMain, Idle
  <2> QED
    BY <2>1, AtSessionIs
<1>6. CASE StartRecording \/ StartRecorder \/ StartOrphaned \/ StopRecording
  <2>1. UNCHANGED sessionVars /\ mainPc' = mainPc /\ alive /\ (alive' = alive \/ Crash)
    BY <1>6 DEF StartRecording, StartRecorder, StartOrphaned, StopRecording, Idle
  <2> QED
    BY <2>1, AtSessionIs
<1>7. CASE \E i \in 1..MaxAttempts : CheckPath(i)
  <2>1. UNCHANGED sessionVars /\ mainPc' = mainPc /\ alive' = alive
    BY <1>7 DEF CheckPath
  <2> QED
    BY <2>1, AtSessionIs
<1> QED
  BY <1>1, <1>2, <1>3, <1>4, <1>5, <1>6, <1>7

\* connect(), with its waits, finds the main thread where it would be alone.
LEMMA MainStepAlone ==
    ASSUME Connect \/ Session!MainStep
    PROVE  Alone!UserStep \/ Alone!MainStep
<1> USE DEF Session!Attempts, Alone!Attempts, Session!Nobody, Alone!Nobody, Session!threads, Alone!threads,
            Session!Closed, Alone!Closed, Session!Held, Alone!Held, Session!Replaced, Alone!Replaced,
            Session!Crash, Alone!Crash
<1>1. ASSUME NEW created \in {"created", "null"}, Session!Connect(created)
      PROVE  Alone!Connect(created)
  <2>1. AtSession = "idle" /\ AtSession' = "join"
    BY <1>1, AtSessionIs DEF Session!Connect
  <2> QED
    BY <1>1, <2>1 DEF Session!Connect, Alone!Connect
<1>2. CASE Session!JoinEnds
  <2>1. AtSession = "join" /\ AtSession' = "sleep"
    BY <1>2, AtSessionIs DEF Session!JoinEnds
  <2> QED
    BY <1>2, <2>1 DEF Session!JoinEnds, Alone!JoinEnds, Alone!MainStep
<1>3. CASE Session!Connected
  <2>1. AtSession = "sleep" /\ (mainPc' = mainPc => AtSession' = AtSession) /\ (mainPc' = "idle" => AtSession' = "idle")
    BY <1>3, AtSessionIs DEF Session!Connected
  <2> QED
    BY <1>3, <2>1 DEF Session!Connected, Alone!Connected, Alone!MainStep
<1> QED
  BY <1>1, <1>2, <1>3 DEF Connect, Session!UserStep, Session!MainStep, Alone!UserStep

\* The other threads do not see the difference: it is the monitor they may wait for.
LEMMA ThreadStepAlone ==
    ASSUME NEW i \in 1..MaxAttempts,
           \/ Session!ConnectStep(i) \/ Session!ReaderStep(i) \/ Session!LinkDrops(i)
    PROVE  Alone!ConnectStep(i) \/ Alone!ReaderStep(i) \/ Alone!LinkDrops(i)
<1> USE DEF Session!Attempts, Alone!Attempts, Session!Nobody, Alone!Nobody, Session!threads, Alone!threads,
            Session!Closed, Alone!Closed, Session!Crash, Alone!Crash
<1>1. mainPc' = mainPc => AtSession' = AtSession
  BY AtSessionIs
<1>2. CASE Session!ConnectStep(i)
  <2>1. \A here, next : Session!AtConnect(i, here, next) => Alone!AtConnect(i, here, next)
    BY <1>1 DEF Session!AtConnect, Alone!AtConnect
  <2> QED
    BY <1>2, <2>1 DEF Session!ConnectStep, Alone!ConnectStep, Session!PickUpSocket, Alone!PickUpSocket,
                      Session!ConnectSucceeds, Alone!ConnectSucceeds, Session!ConnectFails, Alone!ConnectFails,
                      Session!NoSocket, Alone!NoSocket, Session!Settle, Alone!Settle,
                      Session!Initialised, Alone!Initialised
<1>3. CASE Session!ReaderStep(i)
  <2>1. \A here, next : Session!AtReader(i, here, next) => Alone!AtReader(i, here, next)
    BY <1>1 DEF Session!AtReader, Alone!AtReader
  <2>2. Session!MonitorFree => Alone!MonitorFree
    BY AtSessionIs DEF Session!MonitorFree, Alone!MonitorFree
  <2>3. Session!ClearThreads => Alone!ClearThreads
    BY DEF Session!ClearThreads, Alone!ClearThreads, Session!Held, Alone!Held
  <2>4. Session!Disconnected(i) => Alone!Disconnected(i)
    BY DEF Session!Disconnected, Alone!Disconnected
  <2> QED
    BY <1>3, <2>1, <2>2, <2>3, <2>4
       DEF Session!ReaderStep, Alone!ReaderStep, Session!Collect, Alone!Collect, Session!Report, Alone!Report,
           Session!ReportFails, Alone!ReportFails, Session!ReadFails, Alone!ReadFails,
           Session!ConnectionLost, Alone!ConnectionLost, Session!Unexpected, Alone!Unexpected
<1>4. CASE Session!LinkDrops(i)
  BY <1>1, <1>4 DEF Session!LinkDrops, Alone!LinkDrops
<1> QED
  BY <1>2, <1>3, <1>4

\* Nothing the fragment does to the main thread or to the process shows in the Bluetooth
\* session as a step that the session alone could not make.
THEOREM SessionRefinement == Spec => ImplementsSession
<1>1. Init => Alone!Init
  BY DEF Init, Session!Init, Alone!Init, Session!Attempts, Alone!Attempts, Session!Nobody, Alone!Nobody, AtSession
<1>2. [Next]_vars => [Alone!Next]_(Alone!vars)
  <2> SUFFICES ASSUME [Next]_vars PROVE Alone!Next \/ UNCHANGED Alone!vars
    OBVIOUS
  <2>1. CASE \/ Resume \/ TextureAvailable \/ TextureDestroyed \/ Grant
             \/ \E o \in Opens : OnOpened(o) \/ OnDisconnected(o) \/ OnConfiguredOnMain(o)
             \/ Pause \/ Stuck \/ PauseEnds \/ Recreate
             \/ \E kind \in {"preview", "record"} : OnConfigured(kind) \/ OnConfigureFailed(kind)
             \/ NoDeviceToUpdate \/ CheckDevice \/ SetRepeatingRequest
             \/ StartRecording \/ StartRecorder \/ StartOrphaned \/ StopRecording
             \/ \E i \in 1..MaxAttempts : CheckPath(i)
    <3>1. Alone!Ended \/ UNCHANGED Alone!vars
      BY <2>1, FragmentIsQuiet, FragmentStep
    <3> QED
      BY <3>1 DEF Alone!Next
  <2>2. CASE Connect \/ Session!MainStep
    BY <2>2, MainStepAlone DEF Alone!Next
  <2>3. CASE \E i \in 1..MaxAttempts :
                Session!ConnectStep(i) \/ Session!ReaderStep(i) \/ Session!LinkDrops(i)
    BY <2>3, ThreadStepAlone DEF Alone!Next, Alone!Attempts
  <2>4. \A i \in 1..MaxAttempts : NoFile(i) \/ WriteLine(i) => Session!ReaderStep(i)
    BY DEF NoFile, WriteLine, Session!ReaderStep
  <2>5. SessionStep =>
            \/ Session!MainStep
            \/ \E i \in 1..MaxAttempts :
                  Session!ConnectStep(i) \/ Session!ReaderStep(i) \/ Session!LinkDrops(i)
    BY DEF SessionStep, Session!ReaderStep
  <2>6. CASE UNCHANGED vars
    BY <2>6 DEF vars, sessionVars, Alone!vars, Alone!threads, AtSession
  <2> QED
    BY <2>1, <2>2, <2>3, <2>4, <2>5, <2>6 DEF Next
<1> QED
  BY <1>1, <1>2, PTL DEF Spec, ImplementsSession, Alone!Spec

\* The theorems about ObdSession, read with the main thread as the session takes it.
Proved == INSTANCE ObdSession_proofs WITH mainPc <- AtSession

LEMMA AloneIsProved ==
    /\ Alone!Init => Proved!Init
    /\ [Alone!Next]_(Alone!vars) => [Proved!Next]_(Proved!vars)
    /\ Proved!SocketsAreOwned => Alone!SocketsAreOwned
<1>1. Alone!Init => Proved!Init
  BY DEF Alone!Init, Proved!Init, Alone!Attempts, Proved!Attempts, Alone!Nobody, Proved!Nobody
<1>2. [Alone!Next]_(Alone!vars) => [Proved!Next]_(Proved!vars)
  BY DEF Alone!Connect, Proved!Connect, Alone!JoinEnds, Proved!JoinEnds, Alone!Connected,
         Proved!Connected, Alone!AtConnect, Proved!AtConnect, Alone!PickUpSocket, Proved!PickUpSocket,
         Alone!ConnectSucceeds, Proved!ConnectSucceeds, Alone!ConnectFails, Proved!ConnectFails,
         Alone!NoSocket, Proved!NoSocket, Alone!Settle, Proved!Settle, Alone!Initialised,
         Proved!Initialised, Alone!AtReader, Proved!AtReader, Alone!Collect, Proved!Collect,
         Alone!Report, Proved!Report, Alone!ReportFails, Proved!ReportFails, Alone!ReadFails,
         Proved!ReadFails, Alone!Disconnected, Proved!Disconnected, Alone!ConnectionLost,
         Proved!ConnectionLost, Alone!Unexpected, Proved!Unexpected, Alone!LinkDrops, Proved!LinkDrops,
         Alone!Ended, Proved!Ended, Alone!UserStep, Proved!UserStep, Alone!MainStep, Proved!MainStep,
         Alone!ConnectStep, Proved!ConnectStep, Alone!ReaderStep, Proved!ReaderStep,
         Alone!ClearThreads, Proved!ClearThreads, Alone!Closed, Proved!Closed, Alone!Held, Proved!Held,
         Alone!Replaced, Proved!Replaced, Alone!Crash, Proved!Crash, Alone!MonitorFree,
         Proved!MonitorFree, Alone!Attempts, Proved!Attempts, Alone!Nobody, Proved!Nobody,
         Alone!threads, Proved!threads, Alone!vars, Proved!vars, Alone!Next, Proved!Next
<1>3. Proved!SocketsAreOwned => Alone!SocketsAreOwned
  BY DEF Alone!SocketsAreOwned, Proved!SocketsAreOwned, Alone!Attempts, Proved!Attempts
<1> QED
  BY <1>1, <1>2, <1>3

\* What is proved of the session alone holds beside the camera: no rotation, pause or
\* recording makes the application forget a socket.
THEOREM OwnershipBesideCamera == Spec => []Alone!SocketsAreOwned
<1>1. Proved!Spec => []Proved!SocketsAreOwned
  BY Proved!Ownership, DashCamAssumption
<1>2. Alone!Spec => Proved!Spec
  BY AloneIsProved, PTL DEF Alone!Spec, Proved!Spec
<1>3. []Proved!SocketsAreOwned => []Alone!SocketsAreOwned
  BY AloneIsProved, PTL
<1> QED
  BY <1>1, <1>2, <1>3, SessionRefinement, PTL DEF ImplementsSession
=============================================================================
