# TLA+ models of oddslingers.poker

Specifications of an online poker site: its server (Django, redis, one process
per table) and what its pages do with the websocket (`src/core/`).  They are written from the code and checked
with TLC; the theorems are proved with TLAPS.  `PROJECT.json` lists the
components, runs, hazards, findings and theorems, and maps every definition
to the lines it models.

## 1. The system

| component | state | operations | properties that make it correct |
|---|---|---|---|
| **Betting engine** `poker/controllers.py` (`HoldemController`), `poker/accessors.py`, event handlers in `poker/models.py` | the rows of one table and its players: stacks, wagers of the hand, bets of the street, dead blinds, last actions, cards, presets, playing states, positions, blinds owed | `dispatch(action)` = one player action, then `step()` until a player has to act, then one commit; `timed_dispatch` for the clock | chips are conserved; a street ends when the betting is closed; nobody acts out of turn; a hand always ends |
| **Pots and showdown** (`sidepot_summary`, `showdown_winnings_for_pot`) | none (functions of the table) | cut the pot at the all-in amounts, split each pot between its best hands | the pot is paid exactly; nobody wins chips it did not match; odd chips by position |
| **Table heartbeat** `poker/tablebeat.py`, `poker/heartbeat_utils.py` | a redis list of messages per table; a process with the controller in memory | peek, dispatch, commit, pop; `start_tablebeat` from any request; SIGTERM, crash, pause of an empty table | messages in order; nothing is lost, repeated or starved beyond what a stop, or a second process, costs |
| **Seating, buy-ins, chips between hands** (`setup_hand`, `take_seat`, `leave_seat`, `buy`, `rebuy_*`) | `playing_state`, `position`, `stack`, rebuys, user balances | 14 player actions, booting, orbit bumps | balance + stack is conserved; one player per seat; who cannot pay is not dealt in |
| **Blind rotation** (`sit_in_pending_and_move_blinds`, `new_hand_blinds_owed`) | `btn_idx`, `sb_idx`, `bb_idx`, `owes_sb`, `owes_bb`, a locked button | once per hand | nobody skips or pays twice a blind in an orbit; there are always two blinds |
| **Tournaments** (`FreezeoutController`, `PokerTournament`, `tournament` views) | status, entrants, prize pool, level | join, leave, start, cancel, finish | entry fees in = prizes and refunds out; one start; levels by hand number |
| **Bounty, Omaha** | bounty flag | 7-2 bounty sequence; pot-limit bets | the bounty is paid once by everybody dealt in |
| **Bot heartbeat** `poker/botbeat.py` | one redis list of tables | copy the list, look at one table after the other, put back those that wait, push a move to the table's queue, pop | a table that waits for a bot is served; the pops, which name nothing, take what they should |
| **Balances and transfers** `banker/` | user balances, transfer log, cashier | transfers by lists of mutations in a transaction; older read-modify-write ones | no balance below zero, no lost update |
| **Sidebets** `sidebets/` | opening, active, closing, closed bets on another player's stack | create, close, rebuy, hooks on game events | each bet is paid once |
| **Levels, badges, bonuses** `rewards/`, `poker/level_utils.py` | badges and levels of users | hooks on game events | awarded once |
| **Subscribers** `poker/subscribers.py`, `poker/megaphone.py`, `poker/animations.py` | per-commit event lists | broadcast after a commit | every page hears of every gamestate, in order |
| **Websockets** `sockets/`, `poker/views/handlers.py` | a row per channel | connect, disconnect, messages, taken by several workers in any order; each pushes to a queue or starts a process | who is connected has a row, and so gets the broadcasts |
| **Browser client** `js/websocket/main.js`, `js/poker/*.js`, `js/pages/table.js` | a router per page with its queue and timer; the version of the gamestate; the animation queue | reconnect, dispatch, queue and paint animations, submit an action | a page that has come to rest shows the table as it is; an action is sent once |
| **Hand history, replayer**, **cards and ranks**, **bot decisions**, **accounts**, **pages**, **support**, **tasks** | - | - | see `PROJECT.json` for why each is left out or planned |

How they interact: a browser sends a message over a websocket; the handler
pushes it on the table's redis list and makes sure that a heartbeat runs.  The
heartbeat takes messages one by one and dispatches each to its controller; the
controller changes its objects in memory by events, every event also goes to
the subscribers (log, animations, sidebets, levels), and a commit writes
everything in one transaction and then broadcasts.  With no message for
`HEARTBEAT_POLL` seconds the heartbeat runs the clock.  Bots are one more
process that pushes to the same list.

The hard behaviours: two processes on one queue and one table; a stop between
any two of peek, dispatch, commit and pop; a controller that is only as fresh
as its process; toggles and presets of players who are not next, interleaved
with the action; short all-ins, which make most of the derived quantities
(`next_to_act`, `min_bet_amt`, pots, uncalled bets) hard to get right; blinds
and seats over many hands; money that moves between a balance, a stack, a
prize pool and a sidebet with a different transaction for each.  The hazards
in `PROJECT.json` are the list of all of these at their lines.

## 2. The modules

| module | what it is |
|---|---|
| `SidePots` | pure operators: the pots of a board and who is paid (EXTENDed by `HoldemHand` and `Showdown`) |
| `SidePotsProofs` | lemmas on sums over finite sets, and what the operators of `SidePots` do with any board |
| `HoldemHand` | one table playing hands: betting actions, presets, clock, streets, end of the hand |
| `ChipPot` | the abstract promise of a hand about chips; `HoldemHand` implements it |
| `MCHoldemHand` | the stacks of the TLC instances |
| `HoldemHandProofs` | two inductive invariants of `HoldemHand`, about chips and about betting, and ten theorems |
| `Showdown` | every end of the betting of a small table, paid by `SidePots` and by a reference |
| `ShowdownProofs` | two theorems about the payments |
| `TableBeat` | heartbeat processes, redis list, commits, signals |
| `MessageQueue` | the abstract promise of the queue; `TableBeat` with one starter implements it |
| `TableBeatProofs` | inductive invariants of `TableBeat`, with one starter and with any, and five theorems |
| `Blinds` | pure operators: who can play and where button and blinds come, as functions of a room |
| `Seating` | the table between hands: requests, buy-ins, `setup_hand` with `Blinds` |
| `MCSeating` | the seven scenes of the TLC instance |
| `SeatingProofs` | the inductive invariant of `Seating` and four theorems |
| `Sockets` | the server's end of the websockets: workers, rows, heartbeat, broadcasts |
| `SocketRouter` | the browser's end: one router per page (EXTENDS `Sockets`) |
| `TableView` | what a page shows: gamestate versions and the animation queue |
| `TablePage` | all of a user's pages: `SocketRouter` with an INSTANCE of `TableView` |
| `MCTablePage` | the five scenes of the TLC instance |
| `TablePageProofs` | types, connections and actions of all pages: invariants and four theorems |
| `TableViewProofs` | what the pages show and which buttons: invariants and four theorems |
| `Botbeat` | the process of the bots, its redis list and the heartbeats that fill it |
| `MCBotbeat` | the tables and turns of the TLC instance |
| `BotbeatProofs` | the inductive invariant of `Botbeat` and three theorems |

### HoldemHand

A `dispatch` of the code is an action, then `step()` in a loop, then a commit,
and no other handler runs in between, because the heartbeat is one thread.
The model keeps the loop visible: an action leaves `phase = "step"`, where only
the moves of `step()` are enabled (`WaitForPlayer`, `PlayPreset`, `DealStreet`,
`EndHand`), each with the condition the code tests.  So one action of the
model is one iteration of `step()`, and every state of the loop is checked.

`stack`, `wagers`, `uncollected`, `deadMoney`, `lastAction`, `hasCards` and
`preset` are the fields of `Player` with those meanings; `leaving` is
`playing_state = LEAVE_SEAT_PENDING`, the only toggle that changes how a hand
is played (a player who leaves is folded when it is its turn).  `startStack`
is a history variable.  `next_to_act`, `first_to_act_pos`, `call_amt`,
`min_bet_amt`, `available_actions`, `return_uncalled_bets` and the pots are
operators translated from the accessors, with the order of every sort: the
minimum raise depends on it.

Abstracted: cards are "has cards", the board is its length, the value of a
hand is a rank chosen at the showdown.  Amounts are natural numbers (the
`precision` of the tables played is 0).  What `setup_hand` decides (who plays,
where the blinds are, who owes one) is an input of `StartAnyHand`, limited to
what the rotation can produce (`BlindSeats`).  Already in are the active players
and the one who gets the big blind.  When they are two, the hand is heads up and
whoever wants to join waits (`hu_blinds_wait_edgecase_players`); so nobody but the
big blind joins a hand of fewer than four.  When they are more, the small blind is
an active player or the empty seat right before the big blind, nobody sits between
the two, and who joins does not sit from the button up to the big blind
(`must_wait_to_sit_in_players`).  Only players who join owe blinds, and have a big
blind at least.  When the blinds are drawn, nobody waits and nobody owes.  An
exception of `end_hand` is a phase of its own.

These inputs were compared with the hands that `Seating` deals in its run, drawn or
rotated, outside the listed runs.  All of them are among the inputs, but for those
behind two exceptions of section 4: the small blind got past the big one
(`SmallMayPassBig`, ten hands), or a player sat in beyond a big blind who joins, and
is in already while he owes (`NobodyJumpsIn`).  These two are left out here.

`ChipPot` knows only three amounts per player.  The blinds are posted out of
the stacks, one player at a time puts chips in, only the excess of the single
largest bet over the next one may come back, and the pot is paid as a whole,
to the chip.

### Showdown

The initial states are all boards betting can end with (uncalled chips went
back, everybody in has matched or is all-in); the one step pays.  The reference
shares every chip between the best hands among those who bet that far, in
sixtieths (2 to 6 players, the seats of a table), and a payment may differ from
it by less than a chip per pot.

### TableBeat

A process is a program counter (`load`, `peek`, `pushback`, `dispatch`,
`check`, `pop`) and a copy of the table (`memLog`, `memVersion`).  The table is
reduced to the sequence of messages applied to it, and `version` stands for
`table.modified`, the timestamp that every save renews.  `Peek` and `PushBack`
are two actions, as blpop and lpush are two commands; so are `FindNoBeat` and
`ForkBeat`.  `Terminate` is the SystemExit that the SIGTERM handler raises:
inside the `try` of the loop the `finally` clause still pops.  `Kill` is a
crash.  `Pause` is the heartbeat leaving its loop because nobody plays or
looks, which depends on the players and sockets and is a free choice here.
`Refuse` covers rejected messages (the loop goes on) and exceptions (the
process stops, `POKER_PAUSE_ON_EXCEPTION`).

`MessageQueue` is a list whose head may be applied or dropped; what has been
applied is never undone.

### Seating and Blinds

A room is a record of all `Player` rows of a table (seat, playing state, stack,
debts, rebuy settings, with the balance of the user) and of `btn`, `sb`, `bb`.
Methods of the controller first make a list of events from the room as it is,
and the events are dispatched then; so every method is an operator from a room
to a room, and reads only the room it is given.  `SetupHand` is their
composition in the order of `setup_hand`: rebuys, queued sit-outs and booting,
pending sit-ins or the locked button, the draw of new blinds or the rotation,
debts of who was passed over, posting, dealing.  A balance that is checked is
the one before the dispatch, as `player_has_balance` reads the database while
the transfers wait for the commit.

An action is a request (one message of a player, with its checks) or the end of
the hand, each followed by `setup_hand` when no hand is played, as `step()`
does.  `Commit` is the end of a dispatch: an exception commits nothing and
suspends the table (`POKER_PAUSE_ON_EXCEPTION`), and `last` says which assertion
it was.  The hand is one step that moves a blind, a whole stack or nothing from
one player dealt in to another.  `owing` is a history variable: who is seated,
was passed by the big blind, just sat down or was left out when the blinds were
drawn, and has not posted one since.

### Sockets, SocketRouter, TableView, TablePage

The interface server turns what happens to a connection into events which the
workers take in any order, so `events` is a set.  A handler creates or updates
the row of its connection first; the one of connect is three actions (`Accept`,
`LoadGame`, `Answer`), as the heartbeat may commit and broadcast in between, and a
commit (`Obey`, `TableMoves`) and its broadcast (`Announce`) are two for the same
reason.  `out[c]` is a FIFO,
as a websocket is.  A router is `ready` when its HELLO was answered.  Until then
actions wait in `queue` (`SendJson`), while HELLO and the answer to a PING go out on
the socket at once (`SendControl`): a page that another page's HELLO makes the server
ping answers before its own HELLO is answered.  Connections are cut (the browser or the
server may notice first), fall silent until `cleanup_stale` takes their row
away, and pages are left, with the beforeunload message.

A gamestate is its number.  `UpdateGamestate` is the reducer and the dispatcher,
which only looks at gamestates with a new version; a batch of animations is
computed, then queued in the next frame (`Frame`), then starts, runs and ends
(`Animate`).  What the page shows is the last batch that has started.

### Botbeat

Heartbeats have the steps that matter to the list of the bots: `Look` reads it and
`Push` appends to it, with whatever the process of the bots does in between.
That process is a program counter (`list`, `fetch`, `think`, `rotate`, `collect`,
`pop`, `down`) and its copy of the list.  `Fetch` and what follows are separate
because the row of a table and those of its players are read by two queries: if
the table has moved on in between, any outcome is possible (`Finds`).  `Rotate`
and `Collect` are the rpush and the blpop of each delayed table, `Send` and `Pop`
the push of the move and the pop for it.  `rested` stands for `get_delay`.

## 3. The runs

| run | instance | shows |
|---|---|---|
| `hand_three` | 3 players with 1, 4 and 3 chips, blinds 1/2, two hands, two ranks, fairness | `TypeOK`, `ChipsAccounted`, `ReturnIsUncalled`, `WinsAddUp`, `RoundClosed`, `PresetsDieWithStreet`; every hand ends (`HandEnds`); implements `ChipPot` |
| `hand_joiners` | 4 players at 5 seats with 1, -, 1, 3 and 3 chips: three are in and the fourth may join, with live and dead blinds out of position, an empty small blind's seat, a big blind that is all-in | `WinsAddUp`, `NoOverwin`, and the exception of `end_hand` is reached |
| `hand_min_raise` | 5 seats, blinds 2/4: three who are in, one of them a big blind with one chip, and one who joins and posts a whole one; or three with 12 chips | violated: a raise to less than the bet (`RaisesExceedBets`) |
| `hand_orphan_pot` | as `hand_joiners` | violated: `end_hand` raises |
| `showdown` | 4 players, wagers up to 3, dead blinds up to 1, 3 ranks | the pot is paid exactly, fairly, odd chips in position |
| `beat_one` | 1 starter, 2 messages, 3 processes in turn, every kind of stop | implements `MessageQueue`, a stop costs one message at most |
| `beat_race` | 2 starters, 2 messages, up to 3 processes, two at a time, fairness | both may find no process and fork: a process that ended has lost one message at most (`EachBeatLosesOneAtMost`), none repeats one, no message waits forever |
| `beat_paused` | 1 starter, pauses | violated: a message at hand is dropped when the heartbeat pauses |
| `beat_overwrite` | 2 starters, no stops | violated: a stale commit passes the check for other writers |
| `table_page` | 5 scenes of up to 2 connections, 2 pages, 1 action, 3 gamestates, fairness | pages at rest are current (`RestingPageIsCurrent`, `SkippedOnceAtMost`), never go back (`ViewNeverGoesBack`) and come to rest (`PagesComeToRest`); `HelloComesFirst`, `SentOnce`, `AliveHasRow`, `ButtonsWaitForAnAnswer` |
| `seating` | 7 scenes of up to 4 players at 5 seats, 2 to 4 requests each, hands without end, fairness | sanity checks (`SanityChecksHold`), who is dealt in (`ActiveAreDealt`), blinds (`MissedBlindIsPosted`, `SmallBlindFollowsBig`, `NobodyJumpsIn`), chips (`ChipsStay`), requests are honoured (`PendingIsHonoured`) |
| `bots` | 2 tables with one or two turns of bots each, one crash, fairness | `PopsWhatWasListed`, `DelayedStayQueued`, `BotsAreServed` |

Why the bounds are enough.  Three players with different stacks are the least
for a side pot with a contested top, a call for less, and a raise that leaves a
third player behind; four chips allow a raise over the big blind and a
re-raise all-in.  Two hands let a hand start from any stacks that the first
one leaves.  Dead blinds, folded contributors of their own pot and blinds out of
position need a player who joins three others, and an empty small blind's seat a
fifth seat, which is `hand_joiners`.  The side-pot arithmetic is checked apart, with
three all-in levels and every tie of four players, in `showdown`.  In
`TableBeat` two messages show order and overwriting, and three processes allow
two stops and a process that outlives them; `MaxTicks` bounds wake-ups
without a message, which change nothing but the timestamp.

`TablePage` has a scene per fault, as faults matter by what they coincide with:
two broadcasts with the empty UPDATE_GAMESTATE and an action; a connection lost
while the table moves; one lost with an action in the queue or on its way; a
page left; two pages, one of which is silent.  Two gamestates are enough for a
stale one to meet a current one, two connections for one reconnection.

`Seating` has a scene per kind of traffic: players around a game of two; a table
where nobody can play, with little money; four who time out and come back;
four who change their minds during a hand; purchases, wins and losses; losing
everything; coming back with just a big blind.  Hands go on for ever, so the
blinds go round any number of times; three requests are what the exceptions
of section 4 need at most.  That
there are no other exceptions on more seats and with more requests is proved
(section 5); two of them were first stated as they occur on five seats, and the
proof and a simulation of six seats showed that they had to be wider.

In `Botbeat` two tables are the least for a pop to take the wrong one, two turns
of a bot for a move to be late, and the list grows to several entries of one
table.  What needs no fairness is proved for any number of tables.

Bounds are CONSTANTS: `MaxHands`, `MaxStarts`, `MaxTicks`, `MaxWager`, `MaxDead`,
`MaxRank`, `Scenes` (what a behaviour may contain), `LastTurn`, `MaxStops` and
`Starts` (how much of these two is used up at the start).  Deadlock is not checked because each model stops at its bound (the
table has played its hands, all messages are sent, the payment is made, all
faults have happened, the table waits for a request).

Fairness.  In `HoldemHand` the clock gets strong fairness and `step()` weak
fairness (spelled out without ENABLED, for which TLC would deal every hand at
every state: in phase `step` there is no other step, and that there always is
that one is proved, `StepGoesOnSafe`).  A heartbeat calls `timed_dispatch` after
every message and after `HEARTBEAT_POLL` seconds without one; the time of the last action, from which
it decides, is only set by RECORD_ACTION, so toggles and presets of other
players, which make the clock's turn come and go, cannot put it off.  One thing
can, and is assumed away: a rejected message skips `timed_dispatch`.  In
`TableBeat` every process goes on (weak fairness of all it does; being stopped
is not required), and a table somebody looks at is started again: each
websocket connection, JOIN_TABLE and AWAKEN call `start_tablebeat`.  In
`TablePage` somebody goes on at each side (weak fairness of the server as a whole
and of the browser as a whole): the workers take events, the heartbeat announces
what it has committed, pages dispatch, paint and reconnect after their timer.
Faults, users and the table need not do anything.  In `Seating` hands end, which
is `HandEnds` of `HoldemHand` (that the step there is always possible is proved,
`HandsCanEnd`); nobody has to ask for anything.  In `Botbeat` heartbeats
that are not paused go on, a bot's time passes, and the process of the bots goes
on and is started again (supervisord).  The clock is never made to help: the
heartbeat's `TimedDispatch` may always find that nobody is out of time.

Each property also has a mutant of the code that breaks it, an operator whose
comment begins with "Mutant": the plausible mistake the property is there for.

## 4. What the checks found

* **Minimum raise** (`hand_min_raise`).  `min_bet_amt` reconstructs the last raise
  from the players' last actions, and a CHECK or CALL overwrites the POST or
  RAISE_TO it needs.  In the run three players are in, at seats 1, 3 and 4, the seat
  of the small blind is empty, and the big blind at seat 1 has one chip.  A fourth
  joins at seat 2, posts a whole big blind of 4 and checks.  The only POST left is that
  of one chip: the next player, who faces 4, may raise to 2.  The street then ends with
  that player behind.  After a bet or raise and a call, the second player in the
  sort is the caller, and a raise to the same amount is accepted; that needs nobody
  who joins, as TLC shows with the three stacks of 12 alone.  Two more
  promises fail with it at a table with a short big blind, as TLC found outside the
  runs, on five seats with blinds 2/4.  `NoOverwin`: with stacks 0, 1, 6, 6 and 6 the
  button raises to 2 behind a bet of 4, keeps chips, so that he is not all-in and cuts
  no side pot, and wins all of the 4s.  `ImplementsChipPot`: with stacks 0, 1, 14, 14
  and 11 the same happens, and on the flop the one behind goes all-in to 9 after a
  raise to 8; the sort is by the wagers of the whole hand, so the minimum is now
  below 8, and he who bet 8 may raise to 7 and takes a chip back (`check_amt`,
  `models.py:875`, lets a negative amount pass).
* **Orphan pot** (`hand_orphan_pot`).  Three players are in: the button with one
  chip, the small blind, all-in with its one chip, and the big blind.  A fourth joins,
  posts a big blind out of position and folds; the button calls all-in, and the big
  blind folds as well.  The chips above one belong to folded players only,
  `winners` pops from an empty list, and the table is suspended in mid-hand.
* **Dropped messages** (`beat_paused`).  The loop pops the message in `finally`
  also when it leaves because the table is empty, so the JOIN_TABLE that would
  have woken it is lost; a process that is terminated between blpop and lpush,
  or during a dispatch, loses its message as well.  Peek-then-pop is therefore
  not at-least-once; `StopCostsOneMessage` is what does hold.
* **Unnoticed overwrite** (`beat_overwrite`).  The check for other writers
  compares against the timestamp the step's own commit has just set.  It
  matters because two heartbeats can run: `start_tablebeat` checks and forks in
  two steps, and the check in `HeartbeatEnvironment` is commented out, so what its
  docstring promises ("preventing multiple heartbeats from running at once") is
  false with two starters.  What `beat_race` shows is what the race costs: a process
  stops when it pops what it did not dispatch, so no process loses more than one
  message.

Some properties hold with an exception, which their formulas name.  Each was met
as a counterexample first.

* **The small blind gets past the big one** (`SmallBlindFollowsBig`,
  `SanityChecksHold`).  `set_sitting_given_blinds` does not stop at a player who
  waits for the next hand, and sits in the one beyond him who waits for the big
  blind (`SmallMayPassBig`; the exception in `NobodyJumpsIn`, too).
  `next_sb_location_info` only looks for a seat right before the big blind, and
  runs past it.  Then `btn_sb_locations` meets the big blind on its way from the
  small blind to the button, in that hand or a later one: "btn rotated back onto
  bb" suspends the table.
* **The locked button** (`SanityChecksHold`, `ActiveAreDealt`).
  `all_pending_sitting_actions` sits in whoever waits, without `can_play`.  Two
  players with exactly a big blind who owe a small one besides sit in that way,
  when the table has just one other; the table then stands still with enough
  players sitting in, and if the other leaves, the check at
  `controllers.py:1447` fails.
* **A blind escaped** (`SmallBlindFollowsBig`).  The player on the big blind posts
  no small blind in the next hand if everybody up to the old small blind is gone
  and the big blind comes to a seat beyond it.
* **A rebuy for the absent** (`ChipsStay`).  `rebuy_checks` and `rebuy_updates` go
  over all the rows of a table.  Who leaves with an auto-rebuy above his stack is
  paid the stack and charged for the rebuy, which is only in his row.  So is who
  leaves at a table that waits, in the dispatch of his own request: he is gone
  when its rebuys are made (`LeavesAtOnce`).  Who is unseated later in a
  dispatch, after the rebuys, loses nothing.
* **An overdraft refused at the commit.**  Who joins an idle table with money for
  the buy-in but not for the auto-rebuy on top of it passes both checks, because
  both read the balance before the dispatch; the transfers fail and the table is
  suspended (`Failures`).
* **Stale pages** (`RestingPageIsCurrent`).  The gamestate a page gets on connect
  has no animations, and only animations change what is shown: a page that was
  disconnected during a broadcast keeps showing the old table until the next one.
  And the empty UPDATE_GAMESTATE of a page may use up the version of the next
  real one, whose animations are then passed over.
* **Buttons gone** (`ButtonsWaitForAnAnswer`).  A rejected action answers nothing,
  so the buttons it hid stay away until the table moves.
* **The bots' pops** (`PopsWhatWasListed`).  A table whose bot is not next is
  passed over without being taken off the list, so after such an entry the
  comment at `botbeat.py:287` ("the last table_id looked at should be the one that
  the move was made for") does not hold: the pops take the first entries, the one
  of the move stays, and the same turn may be thought about again.  The late
  move is rejected, or played if the same bot is next again.  What was copied is
  still what is popped, nothing that wants to wait is lost, and every bot is served.

Found while reading, and not modelled: `on_reset` writes a field
`orbits_since_sitting_out` that no model has; a TAKE_SEAT that comes after the
player was unseated transfers chips without the checks of `join_table`
(`controllers.py:439`); the level of a freezeout indexes one past the end of
`BLINDS_SCHEDULE` (`controllers.py:2172`); joining, leaving and starting a tournament
do not look at its status in the transaction that changes it, so two last JOINs at
a time can overfill it, and a second JOIN of one user pays twice; the cancel
command prints that it refunds, and transfers nothing; `banker/deprecated.py` and
`sidebets/subscribers.py` read balances and bets, change them and save them without
a lock.

## 5. What is proved

`HoldemHandProofs` proves, for every number of seats, all blinds with
`0 < SB <= BB`, all stacks, ranks and numbers of hands (`HandAssumption`, which
TLC evaluates in every run):

* `TypeCorrect`: `Spec => []TypeOK`; no stack, bet or wager is ever negative;
* `ChipsSafe`: `Spec => []ChipsAccounted`;
* `ReturnsSafe`: `Spec => []ReturnIsUncalled`;
* `PaymentsAddUp`: `Spec => []WinsAddUp`;
* `PresetsDie`: `Spec => PresetsDieWithStreet`;
* `StepGoesOnSafe`: whenever `step()` is to go on, it can: a preset that is played is an
  action its player may take, and a hand that ends is paid to the chip, or raises
  because a pot has no winner (`orphan pot` of section 4);
* `StreetsClose`, `NobodyOverwins` and `HandsImplementPot`: `RoundClosed`, `NoOverwin`
  and `ImplementsChipPot`, when nobody but the small blind posts more than the big
  blind did (`BigBlindsLead`);
* `SmallTables`: the same three for two or three seats without that condition.

`TypeOK` is not inductive.  `DealStreet` sets the wagers to `wagers - returned`,
and `returned` is computed from the wagers of the whole hand; it is bounded by
the bet of the street only because what was collected on earlier streets had
been matched.  The inductive invariant `IInv` says so:

* `BetsAreWagers`: the bet of the street is part of the wagers;
* `CollectedIsMatched`: of the chips collected on earlier streets nobody has put
  in more than somebody else did.

When a hand starts nothing is collected, and there are two players
(`Opponent`).  Betting moves the same chips into the wagers and the bet of the
street, so it changes nothing collected (`PutInStep`).  When a street is dealt,
lemma `ReturnedChips` shows from `CollectedIsMatched` that the returned chips
are at most the leader's bet, and that afterwards leader and second have the
same in, which is `CollectedIsMatched` again.  There is a lemma per action and
one for a step; `Min` and cardinality enter by `MinOfTwo` and `Opponent`.

Betting needs a second invariant, `BetInv`, because `next_to_act` and
`min_bet_amt` store nothing and read what earlier turns left:

* `RaiserLeads`, `RaisesCover`: if somebody bet or raised, one who did has the
  largest bet of all who were dealt in, so `LastRaiser` is the one to answer;
* `CallersAreEven`: without a bet or raise, who has acted and has chips left has bet
  as much as anybody;
* `PaidInFull`: on the earlier streets, too, whoever still has chips to bet paid as
  much as anybody;
* `BlindsArePaid`: before the flop the largest blind is that of the player who
  acts last (`LastBlind`): when this player has acted, all have;
* `OnlyDealtPlay`, `PotIsOpen`, and that a table that waits, waits for somebody.

TLC checked `BetInv` on three and four seats before it was proved.  `WhoIsNext`
says what `NextToAct` means on any state of the types, with the places at the table
modulo the number of seats (`PlacesDiffer`, `SeatsBetween`); `RaisesMeetBets` that the
minimum raise is at least the largest bet; `StreetIsOver` that nobody is behind
when nobody is to act.  A turn that folds, checks or calls and one that bets or
raises are one lemma each (`QuietTurn`, `RaisingTurn`), of which the actions, the
clock and the presets are instances.

Presets need neither the condition nor `BetInv`, but an invariant of their own,
`PresetInv`: who has a preset and has not acted waits behind a bet (`PresetsWait`); a
call that waits is for more than what its player has bet (`CallsAreForMore`); who has
not acted has bet nothing, or before the flop nothing but a blind; and since the
player in the big blind is asked last, its bet stays in the middle while others wait.
So nobody with a preset is passed over: when nobody is to act, all have acted or
nobody can, and the street that is dealt clears what is left.

`NobodyOverwins` compares two ways to count the same chips.  With the betting
closed, a player in the showdown who has wagered less than another is all-in and caps
a side pot (`AllInCapsPot`), so that all pots he is in consist of levels up to his
own wager; the sum of those levels over the players is what he matched
(`WonWithinWagers`).

The condition `BigBlindsLead` is about what is posted, and is needed by all three
theorems that have it.  Players who join owing a big blind have one
(`min_amt_to_play`), but the player in the big blind may be all-in with less, and then
the largest blind is not that of the last to act: a raise may be to less than the
bet.  The street ends with the raiser behind (`hand_min_raise`), who may win more
than he matched, and a later raise may take chips back (section 4).  The condition holds
whenever the big blind is posted in full, and whenever nobody joins but the one who
gets it.  On two or three seats it always does (`NobodyJoins`): while two play, others
wait, and when three do, no seat is left.  That is `SmallTables`.

`HandsImplementPot` maps a step to a step of `ChipPot` or to none: blinds to
`PostBlinds`, bets to `PutChips` (a raise never takes back: `RaiseTurn`), a street to
`TakeBackUncalled`, the end of a hand to `PayPot`, which pays all of a pot that is
not empty.

`SidePotsProofs` proves what the sums and pots need.  `SumFunctionOnSet` is a fold,
defined by recursion over a CHOOSE, so what it computes for every set is an induction;
the library's induction theorems cannot be instantiated, but the principle of a
well-founded relation can be used as a definition: `SubsetsWellFounded` gives it for
the proper subsets of a finite set, `SumExists` and `SumIs` the sum itself, and
then sums add up, split, and are integers (`SumAdds`, `SumSplits`, `SumIsInt`, ...).  The
slices of a wager are the wager, so the pots are the chips in the middle whatever
levels cut them; and a pot's shares with its odd chips are the pot (`PotIsPaid`).

`ShowdownProofs` adds, for any wagers, dead blinds and ranks:

* `ShowdownPaysThePot`: `Spec => []PaysThePot`;
* `FirstInPositionFirst`: `Spec => []OddChipsInPosition`;
* `SharesAreFair`: `Spec => []FairShares`, at tables of two to six players.

For the last, whoever did not fold and wagered less than the most caps a pot, when
the payment has ended (`EndedCuts`), so the best hands are the same on all levels of
a pot (`LevelIsOfPot`), and what a player is owed level by level is what it is owed pot
by pot (`OwedByPots`).  Counted in sixtieths of a chip, which up to six winners can
share (`SixtiethsDivide`), each pot pays that with an error of less than one chip
(`ErrorPerPot`), and the errors add up.

`TableBeatProofs` proves, for all processes, messages, stops and bounds
(`BeatAssumption`) and any number of starters:

* `TypesHold`: `Spec => []TypeOK`;
* `OncePerProcessSafe`: `Spec => []OncePerProcess`;
* `EachBeatLosesOneSafe`: `Spec => []EachBeatLosesOneAtMost`;

and when `Starters` is a single one:

* `QueueImplemented`: `Spec => ImplementsQueue`;
* `StopCostsSafe`: `Spec => []StopCostsOneMessage`.

What is pushed back or dispatched is a message (`Typed`), without which `TypeOK` is
not inductive.  For `OncePerProcess` a message never is twice in queue and hands
(`Unique`), and the dispatches of a message and the beats that may still dispatch it
are together at most as many as the beats started (`Budget`).  For
`EachBeatLosesOneAtMost` the messages that are lost are at most as many as the beats that
ended (`Losses`): a pop takes what its own beat has dispatched, or the assertion
after it ends the beat, and so does a stop between blpop and lpush.

The inductive invariant `BInv` of one starter adds that

* `OneProcess`: beats that run are the same one, and there is none while a
  starter that found none has not forked yet;
* `FreshCopy`: once it has loaded, the controller of the one beat is the table,
  so that a commit of what it has in memory never undoes anything;
* `HandIsHead`: the message at hand has been pushed back and is the head of the
  queue, so that what is applied is the head (`ApplyHead`).

`Pending`, the queue of the abstract module, has the message that is in a hand
between blpop and lpush in front of the list; the lemmas on sequences show that
a pop and its push leave it as it was.  A stop between the two is the one step
that drops a message without a pop.  With two starters these theorems are
false: both may find no process and fork, which `beat_race` and
`beat_overwrite` start from.

What stops cost is counted by a set, not by sums: `Costs` has a pair for every
message that is lost or about to be and for every dispatch after the first, and
`CostInv` says that there are at most `stopped` of them.  A step adds a pair only
when it stops a beat, and then one.

`TablePageProofs` and `TableViewProofs` prove, for any pages, connections, actions,
gamestates and scenes, every invariant and the action property of `TablePage`:

* `TypeCorrect` and the invariant `ConnInv` of connections (an open connection belongs
  to one page, a closed one is silent, what a router believes is true of the server),
  which gives `GreetedFirst` (`HelloComesFirst`: no action goes to a worker before the
  HELLO of its connection was answered) and `AliveStaysKnown` (`AliveHasRow`: every page
  with an open connection has a row or will be given one, greeted or not);
* `SentOnceSafe`: `SentOnce`, from `PlaceInv`: each action is in one place, and once;
* `SkipsAreFew`: `SkippedOnceAtMost`, from `VersionInv`: the sequence numbers of the
  messages that a page has not dispatched are those that follow its version;
* `NeverBack`: `ViewNeverGoesBack`, from `OrderInv`: the gamestates that are queued,
  unread and on their way to a page increase;
* `RestIsCurrent`: `RestingPageIsCurrent`, from `HeardInv`: the newest gamestate is
  among what the page shows, has before it, missed or skipped;
* `ButtonsReturn`: `ButtonsWaitForAnAnswer`, from `ButtonsInv`: a page whose buttons
  are away has an action somewhere or a gamestate to come that asks again.

Each has one lemma per group of actions; `Goals` and `Rising` say in which order a
sequence of messages brings gamestates, and the lemmas on them (`GoalsBehind`,
`GoalsOfRest`, `GoalsOfBoth`) are what the steps that append and take use.

`SeatingProofs` proves, for all finite sets of players, two seats or more, all blinds
with `0 < SmallBlind <= BigBlind`, all buy-ins that are at least a big blind, a limit
of one orbit or more (`MAX_ORBITS_SITTING_OUT`, `constants.py:37`, is 3) and all scenes
(`BlindsAssumption`, `BuyinAssumption`, `ScenesAssumption`):

* `TypeCorrect`: `Spec => []TypeOK`; no stack or balance is ever negative;
* `HandsOfActivePlayers`: `Spec => []ActiveAreDealt`;
* `NoFreeHands`: `Spec => []MissedBlindIsPosted`;
* `ChecksHold`: `Spec => []SanityChecksHold`;
* `SmallFollowsBig`: `Spec => SmallBlindFollowsBig`;
* `NobodyGoesFirst`: `Spec => NobodyJumpsIn`;
* `ChipsAreKept`: `Spec => ChipsStay`;
* `HandsOfTwo` and `HandsCanEnd`: a hand is dealt to two players at least, and there is
  a way for it to end after which `setup_hand` has an outcome.

The first three are parts of `SeatsAndDebts`, `Spec => []IInv`.  `IInv` says that the room
is one (`IsRoom`: types, and who is seated has a seat), that no two players have the
same seat (`OnePerSeat`), and that who has missed a big blind owes one in his row
(`Owed`), which is what the code looks at, while `owing` is what happened.  The
events between two hands only keep seats and debts (`RowKeeps`, `Follows`).  When
the blinds are drawn, whoever is not dealt in owes (`DrawnOwes`); when they move
on, whoever is passed does (`RotatedOwes`), and who sits in with the next hand is
not passed: the big blind would stop at him (`NextBigNearest`, from the nearest
seat on a finite set, which well-founded induction gives).  Who is dealt in and
owes, posts (`DealsOwes`); so every outcome of `setup_hand` is good
(`SetupHandGood`), and every dispatch keeps `IInv` (`CommitKeeps`).

The positions have an invariant of their own, `Placing`.  During a hand the button, the
small and the big blind are in their order with two players at least (`InPlace`).
Before the blinds move, players only leave the game, and come in only if they waited
for the big blind and are next to it (`BeforeBlinds`).  Then the small blind comes to
where the big one was or right before its new place (`SmallPlaces`), and the
button stays behind both (`ButtonStaysBehind`).  While no hand is played, whoever is
active has sat in with too little, has the button, or is alone (`Idle`).  That leaves
the checks of `setup_hand` only the failures that `SanityChecksHold` names
(`SetupHandChecked`), and the other two properties their exceptions; the exception
for a small blind that passes the big one was found to be needed, and wide enough,
in these proofs.

Chips are counted row by row: what a player owns in all, at the table and outside, is
changed only by a hand, where one of two players wins what the other loses
(`HandChips`), and by a rebuy, which only moves chips when its player has a seat
(`RebuysChips`).  Who joins is still there at the end of the dispatch (`Fresh`), so what
is missing from the sum is what those lost who were away or left before the rebuys
(`GoneIs`), which is the exception of `ChipsStay`.

`BotbeatProofs` proves, for any tables, turns, crashes and starts
(`BotbeatAssumption`):

* `TypeCorrect`: `Spec => []TypeOK`;
* `PopsSafe`: `Spec => []PopsWhatWasListed`;
* `DelayedSafe`: `Spec => []DelayedStayQueued`.

The inductive invariant adds that there are at most as many pops in a round as
entries in the copy (`PopsAreCounted`: the entry of the move was not delayed), that
what is left of the copy is the front of the list (`CopyIsFront`), and that what was
put back is behind it (`PutBackIsBehind`).  Appending keeps both, and a pop moves
both by one; four lemmas on sequences say so.

Only model-checked:

* `RoundClosed`, `NoOverwin` and `ImplementsChipPot` at more than three seats are
  proved only when the big blind leads; with a short big blind all three are false
  (section 4), and what the runs check of them is without joiners, or too small to
  get there;
* all liveness (`HandEnds`, `NoMessageWaitsForever`, `PagesComeToRest`,
  `PendingIsHonoured`, `BotsAreServed`): fairness and ENABLED are out of the prover's
  reach.

No module uses RECURSIVE.

## 6. Plan

Done so far: the hand, the heartbeats, the table between hands with its blinds, the
websockets from the heartbeat to the page, the bots' process.  Left, in this order:

1. `Seating` with `HoldemHand` in place of its one-step hand: what the rotation
   allows is what `StartAnyHand` takes.
2. `Freezeout` (p): entry fees, start, cancel and leave by different processes,
   levels from the hand number, placements and prizes.
3. `Banker` and `Sidebets` (p): transfers in transactions against the old
   read-modify-write ones; each sidebet is paid once.
4. What the hand still promises of its streets and pots when a big blind is short.
5. `Rewards`, the replayer, the other pages of the browser.

## 7. Not modelled

In the modules: cards and their ranking, wording and logging, timebanks (the clock is a
free choice of when to fold), bounties and Omaha limits.  In `Seating` the buy-in a
message names, antes, the tables of tutorials and tournaments, and the betting,
of which only who wins a blind or a stack is left.  In `TablePage` what an animation
looks like, chat, sidebets and support messages, TIME_SYNC, and pages of other
users, whose actions are `TableMoves`.  In `Botbeat` what a bot decides, and processes
on more than one machine.

Components: tournaments, sidebets, balances outside a table, and rewards (section
6); the decisions of bots and the ranking of hands, which are functions over
spaces TLC cannot enumerate; accounts, pages, support and jobs, which are forms and
reports over single rows; debugging flags (a web page that peeks at the queue under
`SERVER_LATENCY_TEST`).  Most of the lines of the repository are not its own code: under
`static/` lie the bundles built from `core/js` with React and other libraries
(`static/lib/pages/*.js`, `static/js/`), the same pages again, and they are left aside
for the sources they are built from.
