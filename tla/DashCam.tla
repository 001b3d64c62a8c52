------------------------------ MODULE DashCam ------------------------------
(***************************************************************************)
(* Recording in the Android application: CameraFragment with its camera,   *)
(* recorder and readings file, beside the Bluetooth session (ObdSession)   *)
(* whose ConnectedThread writes that file.  The main thread runs the       *)
(* fragment's life cycle, clicks and camera callbacks one at a time; the   *)
(* callbacks of capture sessions come on the background thread.            *)
(***************************************************************************)
EXTENDS Integers

CONSTANTS
    MaxAttempts,    \* bound on connection attempts
    MaxOpens,       \* bound on calls of CameraManager.openCamera()
    MaxRecordings   \* bound on recordings begun

ASSUME DashCamAssumption ==
    MaxAttempts \in Nat /\ MaxOpens \in Nat /\ MaxRecordings \in Nat

Opens == 1..MaxOpens
Recordings == 1..MaxRecordings
None == 0   \* null: no camera device, no file name

VARIABLES
    alive, mainPc, attempts, mState, mBTSocket, socket,
    mConnectThread, mConnectedThread, connectPc, mSocket, reader,
    granted,      \* the user has granted the permissions
    resumed,      \* the fragment is resumed
    finishing,    \* its activity is being finished
    texture,      \* mTextureView.isAvailable()
    listening,    \* mSurfaceTextureListener has been set
    behind,       \* the openings that the listener has begun for a paused fragment
    permits,      \* of mCameraOpenCloseLock
    camera,       \* what became of each call of openCamera()
    opens,        \* calls so far
    device,       \* mCameraDevice: the call it came from
    recorder,     \* mMediaRecorder
    session,      \* mPreviewSession: what it shows, or "none"
    pending,      \* capture sessions asked for and not configured yet
    posted,       \* the cameras asked for one with no background thread to tell of it
    backgroundPc, \* where the background thread is, and with which session
    configuring,
    runnables,    \* runnables that start the recorder, posted to the main thread
    orphaned,     \* a fragment that is gone has left such a runnable
    isRecording,  \* mIsRecordingVideo
    readingsPath, \* mReadingsAbsolutePath: the recording it is named for
    recordings,   \* recordings begun so far
    checked,      \* the path each ConnectedThread has found to be not null
    late,         \* lines written to a file that was no longer current
    surplus,      \* releases by onDisconnected() or onError() after onOpened()
    denied        \* calls of openCamera() that ended in CameraAccessException

sessionVars == <<attempts, mState, mBTSocket, socket, mConnectThread, mConnectedThread,
                 connectPc, mSocket, reader>>
lifecycle == <<granted, resumed, finishing, texture, listening, behind>>
cameras == <<permits, camera, opens, device, surplus, denied>>
capture == <<session, pending, posted, backgroundPc, configuring, runnables, orphaned>>
files == <<readingsPath, recordings, checked, late>>
vars == <<alive, mainPc, sessionVars, lifecycle, cameras, recorder, capture, isRecording, files>>

Session == INSTANCE ObdSession

\* Where the session takes the main thread to be: waiting for the background thread or
\* for the lock of the camera it takes up nothing new, as if there were nothing to do.
AtSession == IF mainPc \in {"joinBackground", "stuck"} THEN "idle" ELSE mainPc

Alone == INSTANCE ObdSession WITH mainPc <- AtSession

Crash == alive' = FALSE

\* The main thread takes up something new.
Idle == alive /\ mainPc = "idle"

-----------------------------------------------------------------------------
(* The camera and its lock *)

\* openCamera(): what it does to the lock, the camera and the recorder.
OpenCamera ==
    \/ /\ ~granted
       /\ UNCHANGED <<alive, cameras, recorder>>
    \/ /\ granted /\ permits = 0   \* nobody releases it within 2500 ms: see Stuck
       /\ Crash
       /\ UNCHANGED <<cameras, recorder>>
    \/ /\ granted /\ permits > 0   \* CameraAccessException
       /\ permits' = permits - 1
       /\ denied' = denied + 1
       /\ recorder' \in {recorder, "initial"}
       /\ UNCHANGED <<alive, camera, opens, device, surplus>>
    \/ /\ granted /\ permits > 0 /\ opens < MaxOpens
       /\ permits' = permits - 1
       /\ opens' = opens + 1
       /\ camera' = [camera EXCEPT ![opens + 1] = "opening"]
       /\ recorder' = "initial"
       /\ UNCHANGED <<alive, device, surplus, denied>>

Resume ==
    /\ Idle /\ ~resumed /\ ~finishing
    /\ resumed' = TRUE
    /\ IF texture
       THEN OpenCamera /\ UNCHANGED listening
       ELSE listening' = TRUE /\ UNCHANGED <<alive, cameras, recorder>>
    /\ UNCHANGED <<mainPc, sessionVars, granted, finishing, texture, behind, capture, isRecording, files>>

\* The layout gives the view its texture, and the listener opens the camera.  By then
\* the activity may be paused again, for the dialog that its onStart() has started:
\* neither the listener nor onPause() sees to that.
TextureAvailable ==
    /\ Idle /\ ~texture
    /\ texture' = TRUE
    /\ IF listening THEN OpenCamera ELSE UNCHANGED <<alive, cameras, recorder>>
    /\ behind' = IF resumed THEN behind ELSE behind \cup (opens + 1)..opens'
    /\ UNCHANGED <<mainPc, sessionVars, granted, resumed, finishing, listening, capture, isRecording, files>>

\* A stopped activity may lose the texture.
TextureDestroyed ==
    /\ Idle /\ ~resumed /\ texture
    /\ texture' = FALSE
    /\ UNCHANGED <<alive, mainPc, sessionVars, granted, resumed, finishing, listening, behind,
                   cameras, recorder, capture, isRecording, files>>

\* The permission dialog is an activity of its own, over the paused one.
Grant ==
    /\ Idle /\ ~resumed /\ ~granted
    /\ granted' = TRUE
    /\ UNCHANGED <<alive, mainPc, sessionVars, resumed, finishing, texture, listening, behind,
                   cameras, recorder, capture, isRecording, files>>

\* startPreview() for camera d; asking for the session may fail.  A paused fragment has
\* no background handler: the callback comes on the main thread then.
StartPreview(d) ==
    IF d = None \/ ~texture
    THEN UNCHANGED <<session, pending, posted>>
    ELSE /\ session' = "none"
         /\ \/ UNCHANGED <<pending, posted>>
            \/ resumed /\ pending' = pending \cup {"preview"} /\ UNCHANGED posted
            \/ ~resumed /\ posted' = posted \cup {d} /\ UNCHANGED pending

\* Mutant of Released: the permit is not given back.
ReleasedNone == permits

Released == permits + 1

OnOpened(o) ==
    /\ Idle /\ camera[o] = "opening"
    /\ camera' = [camera EXCEPT ![o] = "open"]
    /\ device' = o
    /\ StartPreview(o)
    /\ permits' = Released
    /\ UNCHANGED <<alive, mainPc, sessionVars, lifecycle, opens, surplus, denied, recorder,
                   backgroundPc, configuring, runnables, orphaned, isRecording, files>>

\* onDisconnected(), and onError(), which also finishes the activity.
OnDisconnected(o) ==
    /\ Idle /\ camera[o] \in {"opening", "open"}
    /\ permits' = Released
    /\ surplus' = IF camera[o] = "open" THEN surplus + 1 ELSE surplus
    /\ camera' = [camera EXCEPT ![o] = "closed"]
    /\ device' = None
    /\ finishing' \in {finishing, TRUE}
    /\ UNCHANGED <<alive, mainPc, sessionVars, granted, resumed, texture, listening, behind, opens, denied,
                   recorder, capture, isRecording, files>>

\* Mutant of Closing: the device is forgotten without close().
ClosingForgets == camera

Closing == IF device = None THEN camera ELSE [camera EXCEPT ![device] = "closed"]

\* onPause() closes the camera, taking the lock for it, and then waits for the
\* background thread.
Pause ==
    /\ Idle /\ resumed /\ permits > 0
    /\ resumed' = FALSE
    /\ mainPc' = "joinBackground"
    /\ session' = "none"
    /\ camera' = Closing
    /\ device' = None
    /\ recorder' = "none"
    /\ UNCHANGED <<alive, sessionVars, granted, finishing, texture, listening, behind, permits, opens,
                   surplus, denied, pending, posted, backgroundPc, configuring, runnables, orphaned,
                   isRecording, files>>

\* Without a permit the main thread waits for callbacks that only it could run.
Stuck ==
    /\ Idle /\ resumed /\ permits = 0
    /\ mainPc' = "stuck"
    /\ UNCHANGED <<alive, sessionVars, lifecycle, cameras, recorder, capture, isRecording, files>>

\* quitSafely() and join(): what the background thread has begun it finishes.
PauseEnds ==
    /\ alive /\ mainPc = "joinBackground" /\ backgroundPc = "idle"
    /\ mainPc' = "idle"
    /\ pending' = {}
    /\ UNCHANGED <<alive, sessionVars, lifecycle, cameras, recorder, session, posted, backgroundPc,
                   configuring, runnables, orphaned, isRecording, files>>

\* Mutant of Survives: every new activity makes a BluetoothIO of its own.
SurvivesNot ==
    /\ mState' = "NONE" /\ mConnectThread' = None /\ mConnectedThread' = None
    /\ UNCHANGED <<attempts, mBTSocket, socket, connectPc, mSocket, reader>>

\* onCreate() makes a BluetoothIO only if there is none: it is static.
Survives == UNCHANGED sessionVars

\* A rotation, or a new start after the end of the activity: a new fragment.  What is
\* static stays.  The callbacks of a camera that the old fragment leaves open reach only
\* that fragment; so would a runnable it has posted, but for the recorder it asks for.
Recreate ==
    /\ Idle /\ ~resumed
    /\ camera' = [o \in Opens |-> IF camera[o] \in {"opening", "open"} THEN "left" ELSE camera[o]]
    /\ orphaned' = (orphaned \/ runnables > 0)
    /\ runnables' = 0 /\ posted' = {}
    /\ finishing' = FALSE
    /\ texture' = FALSE
    /\ listening' = FALSE
    /\ permits' = 1
    /\ device' = None
    /\ recorder' = "none"
    /\ session' = "none"
    /\ isRecording' = FALSE
    /\ surplus' = 0
    /\ denied' = 0
    /\ Survives
    /\ UNCHANGED <<alive, mainPc, granted, resumed, behind, opens, pending,
                   backgroundPc, configuring, files>>

-----------------------------------------------------------------------------
(* Capture sessions, on the background thread *)

OnConfigured(kind) ==
    /\ alive /\ backgroundPc = "idle" /\ kind \in pending
    /\ pending' = pending \ {kind}
    /\ session' = kind
    /\ configuring' = kind
    /\ backgroundPc' = "check"
    /\ UNCHANGED <<alive, mainPc, sessionVars, lifecycle, cameras, recorder, posted, runnables, orphaned,
                   isRecording, files>>

OnConfigureFailed(kind) ==
    /\ alive /\ backgroundPc = "idle" /\ kind \in pending
    /\ pending' = pending \ {kind}
    /\ UNCHANGED <<alive, mainPc, sessionVars, lifecycle, cameras, recorder, session, posted, backgroundPc,
                   configuring, runnables, orphaned, isRecording, files>>

\* The end of onConfigured(): for a recording, a runnable for the main thread.
Configured ==
    /\ backgroundPc' = "idle"
    /\ runnables' = IF configuring = "record" THEN runnables + 1 ELSE runnables
    /\ UNCHANGED <<mainPc, sessionVars, lifecycle, cameras, recorder, session, pending, posted, configuring,
                   orphaned, isRecording, files>>

\* updatePreview() looks at mCameraDevice ...
NoDeviceToUpdate ==
    /\ alive /\ backgroundPc = "check" /\ device = None
    /\ Configured
    /\ UNCHANGED alive

CheckDevice ==
    /\ alive /\ backgroundPc = "check" /\ device # None
    /\ backgroundPc' = "repeat"
    /\ UNCHANGED <<alive, mainPc, sessionVars, lifecycle, cameras, recorder, session, pending, posted,
                   configuring, runnables, orphaned, isRecording, files>>

\* ... and then uses mPreviewSession, which may be null or closed by now.
SetRepeatingRequest ==
    /\ alive /\ backgroundPc = "repeat"
    /\ Configured
    /\ \/ session # "none" /\ UNCHANGED alive
       \/ (session = "none" \/ device = None) /\ Crash

\* Asked for by a paused fragment, a preview comes to the main thread instead, where
\* nothing gets between the look at mCameraDevice and the use of the session: that
\* fails if its camera has been closed and another one opened.
OnConfiguredOnMain(o) ==
    /\ Idle /\ o \in posted
    /\ posted' = posted \ {o}
    /\ \/ /\ session' = "preview"
          /\ IF device # None /\ camera[o] = "closed" THEN Crash ELSE UNCHANGED alive
       \/ UNCHANGED <<alive, session>>   \* onConfigureFailed()
    /\ UNCHANGED <<mainPc, sessionVars, lifecycle, cameras, recorder, pending, backgroundPc,
                   configuring, runnables, orphaned, isRecording, files>>

-----------------------------------------------------------------------------
(* Clicks *)

\* Mutant of NamedFile: createReadingsFileName() is forgotten.
NamedFileNone == readingsPath

\* getVideoFilePath() names the readings file too, for the time of day.
NamedFile == recordings + 1

\* startRecordingVideo(), with each call that can end it early.  The file names are
\* chosen before prepare() and createCaptureSession() are known to succeed.
StartRecording ==
    /\ Idle /\ resumed /\ ~isRecording
    /\ mState = "CONNECTED" /\ device # None /\ texture
    /\ session' = "none"
    /\ IF recorder # "initial"
       THEN Crash /\ UNCHANGED <<recorder, pending, readingsPath, recordings>>
       ELSE /\ recordings < MaxRecordings
            /\ recordings' = recordings + 1
            /\ readingsPath' = NamedFile
            /\ \/ recorder' = "unprepared" /\ UNCHANGED pending
               \/ recorder' = "prepared" /\ pending' \in {pending, pending \cup {"record"}}
            /\ UNCHANGED alive
    /\ UNCHANGED <<mainPc, sessionVars, lifecycle, cameras, posted, backgroundPc, configuring, runnables,
                   orphaned, isRecording, checked, late>>

\* The runnable of onConfigured(); start() accepts a prepared recorder only.
StartRecorder ==
    /\ Idle /\ runnables > 0
    /\ runnables' = runnables - 1
    /\ isRecording' = TRUE
    /\ IF recorder = "prepared"
       THEN recorder' = "started" /\ UNCHANGED alive
       ELSE Crash /\ UNCHANGED recorder
    /\ UNCHANGED <<mainPc, sessionVars, lifecycle, cameras, session, pending, posted, backgroundPc,
                   configuring, orphaned, files>>

\* The same runnable, of a fragment whose onPause() has released its recorder.
StartOrphaned ==
    /\ Idle /\ orphaned
    /\ Crash
    /\ UNCHANGED <<mainPc, sessionVars, lifecycle, cameras, recorder, capture, isRecording, files>>

\* Mutant of PathAfterStop: the name becomes empty instead of null.
PathAfterStopEmpty == -1

PathAfterStop == None

\* stopRecordingVideo(); stop() fails on a recorder that has not been started, or
\* has got no frame yet.
StopRecording ==
    /\ Idle /\ resumed /\ isRecording
    /\ isRecording' = FALSE
    /\ \/ /\ recorder = "started"
          /\ recorder' = "initial"
          /\ readingsPath' = PathAfterStop
          /\ StartPreview(device)
          /\ UNCHANGED alive
       \/ Crash /\ UNCHANGED <<recorder, readingsPath, session, pending, posted>>
    /\ UNCHANGED <<mainPc, sessionVars, lifecycle, cameras, backgroundPc, configuring, runnables,
                   orphaned, recordings, checked, late>>

-----------------------------------------------------------------------------
(* The Bluetooth session; a ConnectedThread writes the readings file *)

\* connect() is called from onActivityResult(), before the activity is resumed.
Connect ==
    /\ ~resumed
    /\ Session!UserStep
    /\ UNCHANGED <<lifecycle, cameras, recorder, capture, isRecording, files>>

NoFile(i) ==
    /\ checked[i] = None /\ readingsPath = None
    /\ Session!Report(i)
    /\ UNCHANGED <<lifecycle, cameras, recorder, capture, isRecording, files>>

CheckPath(i) ==
    /\ alive /\ reader[i] = "report" /\ checked[i] = None /\ readingsPath # None
    /\ checked' = [checked EXCEPT ![i] = readingsPath]
    /\ UNCHANGED <<alive, mainPc, sessionVars, lifecycle, cameras, recorder, capture, isRecording,
                   readingsPath, recordings, late>>

\* Mutant of AfterWrite: a thread goes on using the name it has found once.
AfterWriteKept(i) == checked[i]

AfterWrite(i) == None

\* mReadingsAbsolutePath is neither volatile nor locked: the second use sees the
\* value of the first, or what the main thread has made of it.  Paths.get() does
\* not take null.
WriteLine(i) ==
    /\ checked[i] # None
    /\ checked' = [checked EXCEPT ![i] = AfterWrite(i)]
    /\ \E path \in {checked[i], readingsPath} :
        /\ late' = IF path \in {None, readingsPath} THEN late ELSE [late EXCEPT ![path] = @ + 1]
        /\ IF path = None
           THEN Session!ReportFails(i)
           ELSE Session!Report(i)
    /\ UNCHANGED <<lifecycle, cameras, recorder, capture, isRecording, readingsPath, recordings>>

SessionStep ==
    /\ \/ Session!MainStep
       \/ \E i \in 1..MaxAttempts :
            \/ Session!ConnectStep(i) \/ Session!LinkDrops(i)
            \/ Session!Collect(i) \/ Session!ReadFails(i)
            \/ Session!ConnectionLost(i) \/ Session!Unexpected(i)
    /\ UNCHANGED <<lifecycle, cameras, recorder, capture, isRecording, files>>

-----------------------------------------------------------------------------

Init ==
    /\ Session!Init
    /\ granted \in BOOLEAN
    /\ resumed = FALSE /\ finishing = FALSE /\ texture = FALSE /\ listening = FALSE
    /\ behind = {}
    /\ permits = 1
    /\ camera = [o \in Opens |-> "none"]
    /\ opens = 0
    /\ device = None
    /\ recorder = "none"
    /\ session = "none"
    /\ pending = {} /\ posted = {}
    /\ backgroundPc = "idle"
    /\ configuring = "preview"
    /\ runnables = 0 /\ orphaned = FALSE
    /\ isRecording = FALSE
    /\ readingsPath = None
    /\ recordings = 0
    /\ checked = [i \in 1..MaxAttempts |-> None]
    /\ late = [k \in Recordings |-> 0]
    /\ surplus = 0 /\ denied = 0

Next ==
    \/ Resume \/ TextureAvailable \/ TextureDestroyed \/ Grant
    \/ \E o \in Opens : OnOpened(o) \/ OnDisconnected(o) \/ OnConfiguredOnMain(o)
    \/ Pause \/ Stuck \/ PauseEnds \/ Recreate
    \/ \E kind \in {"preview", "record"} : OnConfigured(kind) \/ OnConfigureFailed(kind)
    \/ NoDeviceToUpdate \/ CheckDevice \/ SetRepeatingRequest
    \/ StartRecording \/ StartRecorder \/ StartOrphaned \/ StopRecording
    \/ Connect \/ SessionStep
    \/ \E i \in 1..MaxAttempts : NoFile(i) \/ CheckPath(i) \/ WriteLine(i)

Spec == Init /\ [][Next]_vars

-----------------------------------------------------------------------------
(* Properties *)

FragmentTypes ==
    /\ alive \in BOOLEAN /\ isRecording \in BOOLEAN
    /\ granted \in BOOLEAN /\ resumed \in BOOLEAN /\ finishing \in BOOLEAN
    /\ texture \in BOOLEAN /\ listening \in BOOLEAN
    /\ mainPc \in {"idle", "join", "sleep", "joinBackground", "stuck"}
    /\ recorder \in {"none", "initial", "unprepared", "prepared", "started"}

CameraTypes ==
    /\ permits \in Nat /\ surplus \in Nat /\ denied \in Nat
    /\ camera \in [Opens -> {"none", "opening", "open", "closed", "left"}]
    /\ behind \subseteq 1..opens
    /\ opens \in 0..MaxOpens /\ device \in Opens \cup {None}

CaptureTypes ==
    /\ session \in {"none", "preview", "record"}
    /\ pending \subseteq {"preview", "record"} /\ posted \subseteq Opens
    /\ backgroundPc \in {"idle", "check", "repeat"}
    /\ configuring \in {"preview", "record"}
    /\ runnables \in Nat /\ orphaned \in BOOLEAN

FileTypes ==
    /\ recordings \in 0..MaxRecordings /\ readingsPath \in 0..recordings
    /\ checked \in [1..MaxAttempts -> 0..recordings]
    /\ late \in [Recordings -> Nat]

\* Every variable has its type: in particular the name of the readings file is null
\* or that of a recording that has begun, and the same goes for what a
\* ConnectedThread has read of it.
TypeOK == FragmentTypes /\ CameraTypes /\ CaptureTypes /\ FileTypes

\* A paused fragment leaves no camera open and none being opened, but for those that
\* its listener opens when the texture comes too late, and unless the lock has been
\* released once too often by then.
BackgroundCameraIsClosed ==
    alive /\ ~resumed /\ mainPc = "idle" /\ surplus = 0 =>
        \A o \in Opens \ behind : camera[o] \notin {"opening", "open"}

\* The main thread waits for the lock for ever only if the camera was still being
\* opened when the fragment was paused, or an attempt to open it has failed.
StuckOnlyByOpening ==
    mainPc = "stuck" => denied > 0 \/ \E o \in Opens : camera[o] = "opening"

\* Whenever the button says that a video is being recorded there is a file that the
\* readings go to: a video has its readings.
RecordingHasReadings == alive /\ isRecording => readingsPath # None

\* Once a recording has been stopped with the button, or another one begun, at most
\* the line that each ConnectedThread was about to write still goes to its file.
LateLinesBounded == \A k \in Recordings : late[k] <= attempts

\* Beside the camera, whose life cycle, waits and exceptions the main thread now has
\* too, the Bluetooth session is still the one that ObdSession describes alone.
ImplementsSession == Alone!Spec
=============================================================================
