------------------------------- MODULE TableView -------------------------------
(***************************************************************************)
(* What a page shows of the table: the gamestate reducer                   *)
(* (core/js/poker/reducers.js), the PokerDispatcher that turns gamestates  *)
(* into animations (core/js/poker/process.js) and the animation queue that *)
(* it feeds (the library redux-time).                                      *)
(*                                                                         *)
(* The gamestate reducer keeps a version; the dispatcher looks at it after *)
(* every action of the store, and only when it differs from the one before *)
(* are the animations of the gamestate translated, given start times, and  *)
(* handed to the queue in the next frame of the browser.  The page shows   *)
(* what the animations have made of the gamestate it was loaded with.      *)
(*                                                                         *)
(* The animations of one gamestate are a batch: a SNAPTO to the state      *)
(* before its events, their animations, and a SNAPTO to the state after    *)
(* them, which starts when all others have ended.  When nothing is to be   *)
(* animated there is only the second SNAPTO, which is a batch that ends as *)
(* soon as it has begun.                                                   *)
(***************************************************************************)
EXTENDS Integers, Sequences, FiniteSets

CONSTANTS Screens   \* pages that show the table

VARIABLES
    version,        \* gamestate.version, and then PokerDispatcher.last_version
    frames,         \* batches to be queued in the next frame
    batches,        \* animations.queue
    submitted,      \* gamestate.action_submitted
    refreshed,      \* the UPDATE_GAMESTATE without a gamestate: "never", "due" or "done"
    skipped         \* history: the gamestates whose animations were not queued

viewVars == <<version, frames, batches, submitted, refreshed, skipped>>

(* A batch brings the page from one gamestate to another; it starts when   *)
(* the first `after' batches of the queue have ended.                      *)
Batch(from, to, after) == [from |-> from, to |-> to, after |-> after, phase |-> "waiting"]

(* Later elements of the queue are applied over earlier ones, so what is   *)
(* seen is the last batch that has started.                                *)
Started(v) == {i \in DOMAIN batches[v] : batches[v][i].phase # "waiting"}
Showing(v) == CHOOSE i \in Started(v) : \A j \in Started(v) : j <= i
Shown(v) ==
    LET b == batches[v][Showing(v)] IN IF b.phase = "ended" THEN b.to ELSE b.from

Towards(v) == batches[v][Showing(v)].to

AllEnded(v) == \A i \in DOMAIN batches[v] : batches[v][i].phase = "ended"

ViewInit(refresh) ==
    /\ version = [v \in Screens |-> -1]
    /\ frames = [v \in Screens |-> <<>>]
    /\ batches = [v \in Screens |-> <<>>]
    /\ submitted = [v \in Screens |-> FALSE]
    /\ refreshed = [v \in Screens |-> IF refresh THEN "due" ELSE "never"]
    /\ skipped = [v \in Screens |-> {}]

(* setInitialState: the gamestate in the page has version -1 and one       *)
(* SNAPTO, which is queued at once.                                        *)
Mount(v, g) ==
    /\ version' = [version EXCEPT ![v] = -1]
    /\ batches' = [batches EXCEPT ![v] = <<[Batch(g, g, 0) EXCEPT !.phase = "ended"]>>]
    /\ UNCHANGED <<frames, submitted, refreshed, skipped>>

(* getNextAnimStartTime: after what is queued, or now when that would take *)
(* more than 8 seconds.                                                    *)
StartAfter(v) == {Len(batches[v])} \cup (IF AllEnded(v) THEN {} ELSE {0})

(* handleStateChange                                                       *)
IsNewVersion(v, new) == new # version[v]

HandleStateChange(v, new, animated, g) ==
    /\ version' = [version EXCEPT ![v] = new]
    /\ IF animated /\ IsNewVersion(v, new)
       THEN \E after \in StartAfter(v) :
               frames' = [frames EXCEPT ![v] = Append(@, Batch(g - 1, g, after))]
       ELSE UNCHANGED frames
    /\ skipped' = IF animated /\ ~IsNewVersion(v, new)
                  THEN [skipped EXCEPT ![v] = @ \cup {g}] ELSE skipped

(* version: action.SEQ_NUM || state.version + 1                            *)
NextVersion(v, seq) == IF seq = 0 THEN version[v] + 1 ELSE seq

(* Mutant: the buttons only come back with animations.                     *)
UpdateGamestateAnimated(v, seq, g, animated, asksUser) ==
    /\ HandleStateChange(v, NextVersion(v, seq), animated, g)
    /\ submitted' = [submitted EXCEPT ![v] = IF animated /\ asksUser THEN FALSE ELSE @]
    /\ UNCHANGED <<batches, refreshed>>

(* UPDATE_GAMESTATE: the buttons come back when it is the user's turn, or  *)
(* when it may set presets.                                                *)
UpdateGamestate(v, seq, g, animated, asksUser) ==
    /\ HandleStateChange(v, NextVersion(v, seq), animated, g)
    /\ submitted' = [submitted EXCEPT ![v] = IF asksUser THEN FALSE ELSE @]
    /\ UNCHANGED <<batches, refreshed>>

(* pages/table.js dispatches one UPDATE_GAMESTATE with nothing in it when  *)
(* the page has loaded and the user's balance is known.                    *)
Refresh(v) ==
    /\ refreshed[v] = "due"
    /\ refreshed' = [refreshed EXCEPT ![v] = "done"]
    /\ HandleStateChange(v, version[v] + 1, FALSE, 0)
    /\ UNCHANGED <<batches, submitted>>

(* Mutant: what waits for the frame is put before what is queued.          *)
FrameInFront(v) ==
    /\ frames[v] # <<>>
    /\ batches' = [batches EXCEPT ![v] = frames[v] \o @]
    /\ frames' = [frames EXCEPT ![v] = <<>>]
    /\ UNCHANGED <<version, submitted, refreshed, skipped>>

(* requestAnimationFrame: ANIMATE appends what waits for the frame.        *)
Frame(v) ==
    /\ frames[v] # <<>>
    /\ batches' = [batches EXCEPT ![v] = @ \o frames[v]]
    /\ frames' = [frames EXCEPT ![v] = <<>>]
    /\ UNCHANGED <<version, submitted, refreshed, skipped>>

(* Time passes: the SNAPTO at the beginning of a batch, ...                *)
StartBatch(v, i) ==
    /\ batches[v][i].phase = "waiting"
    /\ \A j \in 1..batches[v][i].after : batches[v][j].phase = "ended"
    /\ batches' = [batches EXCEPT ![v][i].phase = "running"]
    /\ UNCHANGED <<version, frames, submitted, refreshed, skipped>>

(* ... and the one at its end.                                             *)
EndBatch(v, i) ==
    /\ batches[v][i].phase = "running"
    /\ batches' = [batches EXCEPT ![v][i].phase = "ended"]
    /\ UNCHANGED <<version, frames, submitted, refreshed, skipped>>

Animate(v) == \E i \in DOMAIN batches[v] : StartBatch(v, i) \/ EndBatch(v, i)

(* SUBMIT_ACTION                                                           *)
SubmitAction(v) ==
    /\ ~submitted[v]
    /\ submitted' = [submitted EXCEPT ![v] = TRUE]
    /\ UNCHANGED <<version, frames, batches, refreshed, skipped>>
=============================================================================
