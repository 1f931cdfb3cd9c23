# LARCmaCS in TLA+

LARCmaCS drives a team of small-size-league robots. Cameras over the field are
read by the SSL vision system, which multicasts detection frames; LARCmaCS
merges them, runs a MATLAB script on the result, turns the matrix `Rules` the
script leaves behind into commands and sends these to the robots by UDP and to
the grSim simulator. A window shows the field, lets the user set robot
addresses, and has a remote control for one robot.

This directory holds specifications of its parts, the TLC configurations that
check them, and proofs for TLAPS. `PROJECT.json` lists runs, the lines each
definition stands for, hazards, findings and theorems.

## Inventory

Five threads, each with a Qt event queue; a signal to an object of another
thread is an event in that thread's queue, with its arguments copied.

| part | state | operations | interacts with |
|---|---|---|---|
| receiver thread (`receiver.h/.cpp`) | `packetssl`, `detection`, `mainalgisfree`, `NewPacket`, `MaxPacketFrequencyMod`, `shutdownread` | `start` (enters the receive loop), `stop`, `MainAlgFree`, `ChangeMaxPacketFrequencyMod`, receive, merge, dispatch | gets `mainAlgFree` from the algorithm, mode from the window; emits `activateMA`, `activateGUI` |
| algorithm thread (`mainAlg.h/.cpp`) | `shutdowncomp`, `fmldata`, `isPause`, once-a-second timer | `start`, `stop`, `run`, `EvalString` | gets frames; emits `sendToConnector`, `mainAlgFree`, labels; calls MATLAB and the simulator |
| connector thread (`connector.h/.cpp`) | `numIP`, UDP socket | `start`, `stop`, `run`, `addIp` | gets commands and addresses; sends datagrams |
| scene view thread (`sceneView`) | `shutdownview` | emits `updateView` every millisecond | window |
| GUI thread: window (`larcmacs`), scene (`fieldScene`), remote control, address dialog | items, check box, `keys`, `effort`, timer | buttons, key events, redraw, construction and destruction of everything | all of the above; reads `detection`, `fieldsize` and `numIP` of other threads directly |
| configuration and messages (`mainAlg`, `message`, `larcmacs`) | the numbers of `LARCmaCS.cnf`; a command's fields | reading the file, narrowing a rule, serialising, checksum | from the script's matrix and the remote control to the bytes of a datagram |
| `macsCommon` | ring buffer, image segmentation (`cmvision`), variable trees, network helpers | | only the network helpers are used |

What is hard, part by part:

* **Frame pipeline.** A one-credit protocol spread over flags of one thread, a
  queue and the stack of another, with nested event loops on both sides, a start-up in
  which the first frame can overtake the algorithm's own initialisation, and
  destruction by `terminate()`. Correct if the credit is neither duplicated
  nor lost and a merged frame is not forgotten.
* **World state.** Several cameras own robots by turns. Correct if the merged
  world is a function of the frames received, the same as a definition over
  the whole history gives.
* **Command dispatch.** The pause is decided later and less often than rules
  are sent; commands overtake nothing but may be lost. Correct if each robot
  ends with the command of the last rule for it, or stands still.
* **Scene and shared frame.** One list of items for all cameras; a frame read
  by one thread while another writes it; redraws, and the zoom slider, served
  from one queue that a third thread fills a thousand times a second. Correct
  if what was announced is shown at last and the zoom is the slider's.
* **Messages.** A speed is a double, a char, an int and an unsigned word in
  turn; format and checksum exist twice; the shape of a rule comes from a file
  that may be incomplete. Correct if the robot reads what the rule says, and
  nothing else.
* **Image segmentation.** A union-find over runs whose order of
  representatives everything later relies on, with local copies of what it
  changes; tables that may fill up anywhere; a radix sort with a computed number
  of passes. Correct if regions are the connected components of the pixels.
* **Remote control.** Key events that never arrive, a timer, a window closed
  in several ways.
* **Address table.** A dialog in the GUI thread reads a map of the connector's
  thread, and answers with one event per cell, between which commands are
  served. Correct if a command goes to the address its robot had when the
  command was given and the table ends as the last accepted dialog.

## Modules

| module | models | runs |
|---|---|---|
| `FrameMailbox` | abstract: what receiver and algorithm promise each other | (refined by `FramePipeline`) |
| `FramePipeline` | receiver, algorithm and GUI threads around one frame | `pipeline`, `pipeline_startup` |
| `FramePipelineProofs` | its invariant, refinement and proofs | |
| `WorldState` | `ReceiverWorker::run`, lines 33-83 | `world_merge` |
| `WorldStateProofs` | what merging keeps and proofs | |
| `CommandDispatch`, `MCCommandDispatch` | `MainAlgWorker::run` after the script, and `ConnectorWorker::run` | `dispatch` |
| `CommandDispatchProofs` | its invariant and proofs | |
| `RobotMessage`, `MCRobotMessage` | `initConfig`, a rule's way into a `Message`, both serialisers and checksums | `robot_message` |
| `RobotAddressTable` | `numIP` between `IpDialog` and the connector | `address_table` |
| `RobotAddressTableProofs` | the addresses due along what waits, and proofs | |
| `FieldScene`, `MCFieldScene` | `FieldScene::UpdateRobots` | `scene_items` |
| `SharedFrame` | the GUI's queue: `detection` between receiver and GUI, `updateView`, the zoom | `shared_frame`, `shared_frame_index` |
| `DisplayProofs` | what `FieldScene` and `SharedFrame` keep (items, screen, zoom), and proofs | |
| `RemoteControl` | the remote control window | `remote_control` |
| `RobotControlProofs` | proofs about `RemoteControl` and `RobotMessage` | |
| `RingBuffer`, `RingBufferProofs` | `macsCommon/util/ringbuffer.h` | `ring_buffer` |
| `RegionSegmentation`, `MCRegionSegmentation` | `macsCommon/cmvision/cmvision_region` | `regions` |
| `RegionSegmentationProofs` | the invariants of its union-find, chains, measures, sorted lists and filter, and proofs | |

### FramePipeline

The three event queues are reduced to the two that carry control: `rq` (to the
receiver) and `mq` (to the algorithm). A handler is an action. `run()` and the
receive loop contain `processEvents()`, so a handler is split where it does:
`rpc` and `mpc` say where a thread is, and `rdue`/`mdue` count the events the
innermost `processEvents()` must still deliver. Later events may be delivered
too, which is what Qt does when they arrive in time. `depth` is the number of
activations of `run()` on the algorithm's stack: nothing in the model forbids
two, the protocol does. World states are numbered by the frames merged into
them, so `lastSent = packetssl` says that the newest is the one last sent.

Flags no constructor sets (`shutdownread`, `NewPacket`,
`MaxPacketFrequencyMod`, `shutdowncomp`) start with either value. `run()`
before `start()` either returns early (`MARefuse`) or copies through
uninitialised pointers (`MACrash`). `wait(100); terminate()` is an action
enabled as soon as the stop has been posted, wherever the thread is.

`FrameMailbox` has three variables: the newest world state, whether the
algorithm is idle, busy or gone, and what it is busy with. `FramePipeline` maps
to it with `status` "busy" while a run is queued or on the stack.

### WorldState

Positions are abstracted to where they were read (frame number, place in the
list), which is enough to tell any two apart. `log` keeps the frames, and
`RobotsMatchHistory` and `BallMatchesHistory` define from it what the world
should be.

### CommandDispatch

A command has one speed, which stands for the three that are treated alike, and
the kick forward, since the simulator is told of them in other units than the
robots: of a rule for one robot a hundredth of the speeds and no kick
(`AsSingle`), of a rule for all the speeds as they are and five times the kick
(`AsBroadcast`). The model counts hundredths, so that none is lost.
`SimulatorFollowsRobots` says that the simulator was told one of these two of
what the robot is left with, and which. One step of the algorithm thread is one row of
`Rules`, one answer of the engine, or one robot of the pause loop; the
connector takes commands from its queue in between. `Standing(r)` is the
command robot r obeys once the queue has been served, so properties of a
finished run need not wait for the connector. Whether the network loses
datagrams (`lossy`) is chosen once and for all at the start: what must hold of
every single command is claimed of a network that loses none, that robots stop
in the end of any.

### RobotMessage

One behaviour is one program: it reads one configuration file, or finds none,
and then sends messages one after the other. Numbers are in tenths, to see
fractions cut off; a double that does not fit a char, a column the
configuration does not name and a number the file does not give are arbitrary
(`Junk`). A byte is a number and the checksum a set of bits, so that exclusive
or is symmetric difference; the code's table and byte loop are compared with
`Crc32Of`, the textbook's one bit after the other, which stands for the robot.
`Damaged` flips bits on the way, within 32 consecutive ones at a time
(`BurstAssumption`): more than the width of the checksum no checksum of its width can
promise to notice. The specification is called `MessageSpec`, so that
`RobotControlProofs` can extend this module and `RemoteControl`.

### RobotAddressTable

`numIP` is a partial function, since `operator[]` inserts what it does not
find, from either thread. The connector takes an event in one step and touches
the map in a later one, so that a read of the dialog can fall in between; if
the two then want one entry, or one of them inserts, the dialog shows an
arbitrary text or the process is damaged, which stands for every later
consequence too. The window's logging of the whole map once the dialog is open
(`PrintTable`) can only do the latter. A command carries, as history, the address due at the place
where it was queued (`Due`). Commands may also come before the connector's
`start`, because the algorithm thread is started first: the socket does not exist
then, and the process is damaged. No property says that this cannot happen,
since it can. A text without a dot is stored as the empty
address, and a dialog opened before the last one's events were served shows,
and when accepted restores, the old addresses; `OpenDialogShowsTable` says when
it cannot happen.

### FieldScene, SharedFrame

`FieldScene` takes a frame as a whole and is about the reuse of items; a robot that
is listed is taken to have a confidence above 0, since an item with none is hidden. Its
specification is called `SceneSpec`, so that `DisplayProofs` can extend both modules.
`SharedFrame` is about the frame changing under the reader: the copy is made
robot by robot, the GUI counts first and reads afterwards, and what it reads
from a list being copied, or past its end, is arbitrary. Redraws wait in the
GUI's queue between the `updateView` events of the scene view thread, and each is
served whole before the next. A scale is an exponent of 0.9, so that scaling
adds; `lost` sums up the moves whose scaling was replaced before it was done, or
refused: `ZoomFollowsSlider` has the view off by exactly this sum.

### RemoteControl

`keys` is the program's array, `held` the real keyboard. Events reach the
program only while the window is active. `astray` holds the keys last pressed or
released while it was not: of these `keys` may be wrong, in either direction,
until they are touched again with the window active. The simulator is told the
robot's speeds and a kick of 10 (`ToSimulator`).

### RingBuffer

The class has no user in the repository, so reader and writer call it as they
like, with the modes given by constants.

### RegionSegmentation

One step is one turn of a loop of `connectComponents` or `extractRegions`, or a
whole pass of the simpler functions. The local copies `r1` and `r2` differ from
the array only in their parents, so only these are variables. Linked lists are
sequences. What regions should be is said of the pixels alone (`Component`,
`Measure`), with no runs in it.

## Runs

Passing runs (each within two or three minutes):

| run | instance | shows |
|---|---|---|
| `pipeline` | 4 frames, 2 clicks, fair | the credit is one token and is lost only by a refused run; no merged frame is forgotten; a world state is sent at most twice; the mode follows the check box; the pipeline implements `FrameMailbox`; in max-frequency mode a waiting frame is handed over without a further frame |
| `world_merge` | 2 cameras, 2 robots, 2 listed, 4 frames | the incremental merge equals its definition over the history |
| `dispatch` | 2 reachable robots of 3, 2 rules, with and without loss, fair | which command stands after a run; standing still whenever the label is not WORK; the simulator was last told what the robot obeys, in the form of the last rule for it; a paused robot stops however many datagrams are lost |
| `robot_message` | 6 files and none, 6 rules, 2 remote commands, 273 kinds of damage | a rule's numbers reach the robot with their signs; both senders' messages are accepted and damaged ones refused |
| `address_table` | 2 cells, 2 addresses, 2 dialogs | the served table is the last accepted dialog; a command goes where it was due when queued; a dialog opened in time shows the table |
| `scene_items` | 2 cameras, lists up to 2 | the scene shows each camera's newest frame, and of each camera and team there are just as many items as its largest frame needed |
| `shared_frame` | up to 2 robots, 3 frames, 4 moves of the slider between its ends, fair | a torn picture does not last; an announced frame is shown at last; the zoom is off the slider by exactly the moves that were overtaken or refused; no scaling stays pending |
| `remote_control` | 5 keys, fair | a closed window has stopped its robot; an entry of `keys` is right unless the key was last touched out of the window's sight; no key, no motion |
| `ring_buffer` | 4 bins, a writer that waits, a reader that mixes its modes | FIFO of which only a skipping reader passes items over, and then reads the newest |
| `regions` | all images 3x3 of two colours and clear, 5x3 of one, 7x4 of rows that make tall trees; 6 runs or 3 regions at most for 3x3 | parents precede; one parent per connected component; regions, chains, sorted lists and filter agree with the pixels, also when tables are full |

Runs that end in a violation, each contradicting a sentence or assertion of the
repository (see `findings`):

| run | the statement | what happens |
|---|---|---|
| `pipeline_startup` | help: the script runs for every frame, taken weakly: it runs at all | a frame that overtakes `start()` can lose the credit for good, or crash |
| `shared_frame_index` | assertion `index < size()` | the GUI reads past the end of the list |

Divergences that follow from the code at sight and have no run of their own:

* `help.html:5` says the script runs for every frame; frames that arrive while it
  runs are merged into one (`receiver.cpp:92`), which `FrameMailbox` promises.
* `help.html` has column 1 of `Blues` say whether the robot is on the field. It is
  0 also for a robot that one camera has just lost and another still sees
  (`receiver.cpp:60`), until that other camera's next frame, as
  `RobotsMatchHistory` states.
* Without `LARCmaCS.cnf` the script's name and the program's are written into one
  array (`mainAlg.cpp:96-107`): the script called is `Robofootball`, not `main`.
* A second move of the zoom slider before `updateView` replaces the first
  (`larcmacs.cpp:235`), and a refused one is dropped: the view is off by it from
  then on, by exactly these moves, as `ZoomFollowsSlider` states.
* The simulator does not do what the robot does. A rule for one robot reaches it
  as a hundredth of the speeds and without the kick (`mainAlg.cpp:264`), a rule for
  all undivided and with five times the kick (296-297): a rule that only kicks
  leaves its robot standing, and one rule for all moves its robots a hundred times
  as fast as a rule for each. `help.html` says nothing of it.
* With a full region table (`cmvision_region.cpp:211`) regions keep sums for
  centroids and exclusive right edges; `RegionsMeasureComponents` excepts it.
* `help.html` has the ball flag say whether the ball is seen; any camera's frame
  without a ball clears it (`receiver.cpp:53`), as `BallMatchesHistory` states.
* The address dialog offers twelve cells and a pause goes to twelve robots, but
  rules reach only `MAX_NUM_ROBOTS`, four (`mainAlg.h:13`, `mainAlg.cpp:300`).
* A key released while another window is active stays pressed for the remote
  control (`remotecontrol.cpp:66`) until it is touched again; `KeysFollowKeyboard`
  says which keys these can be.
* When `receive()` fails the receive loop serves no events (`receiver.cpp:28`): a
  stop or a click waits for the next packet of any kind. The fairness of
  `pipeline` therefore includes the network.
* `ringbuffer.h:121-122` describes `allow_lapping` the other way round from
  line 131; and with a writer that mixes its modes `skip_frames` (lines
  140-142) can return a bin that was never written.

### Bounds

* `FramePipeline`: with one credit, a third frame finds the protocol in a state
  the second already met; four frames allow a hand-over, a frame remembered, an
  acknowledgement in each of the two nested loops and one more. Two clicks
  allow a mode to be entered and left.
* `WorldState`: four frames of two cameras allow a robot to change owner, be
  lost by the new owner and be reported again by the old one.
* `CommandDispatch`: two rules suffice for one to override the other, in both
  orders of broadcast and single; one motion besides standing still, which drives
  and kicks, tells the two forms for the simulator apart; three robots of which
  two are reachable separate "reachable", "unreachable" and "the next one". `MaxBacklog` lets a run
  start before the connector has caught up with the last.
* `FieldScene`: lists that grow, shrink and reorder for one team, appear and
  disappear for the other, for two cameras sharing the item list.
* `RobotMessage`: every bit of a message is damaged alone, and some pairs and
  bursts of up to 32; files lack each number in turn, repeat one, and ask for
  too many columns; rules have fractions, both signs and the ends of a char.
* `RegionSegmentation`: images large enough for components that wind, for both
  climbs of a union and for trees deep enough to be compressed; two colours
  that touch; too little room for runs and for regions. With one bit sorted per
  pass areas take up to five passes.
* `SharedFrame`: two robots allow a redraw to begin, be overtaken in the middle
  and end in another frame, a third frame to be the one it settles on. One
  `updateView` waiting at a time is enough to stand before, between and behind
  redraws; four moves from end to end meet the upper limit of the zoom, so that
  requests are refused. The lower one is further away than four moves lead;
  `ZoomIsTheSliders` covers any number of them.
* `RobotAddressTable`: one cell with a default and one without; two dialogs let
  the second be opened while the first is being served; two events of backlog
  let a command fall before, between and after a dialog's events.
* `RingBuffer`: four bins separate reader, writer, newest and oldest; the writes
  go round several times. `MaxWrites` bounds only the item numbers.
* `RemoteControl`: `MaxEffort` bounds speeds; keys come in pairs that exclude
  or complete each other.

### Fairness

* `FramePipeline`: each thread is scheduled (`WF` of its steps). `FairSpec`
  adds that packets of some kind keep arriving (`WF` of `NetworkDelivers`),
  which the vision system does at frame rate. Nothing is assumed of the user.
* `CommandDispatch`: runs keep starting, because frames keep coming; the
  connector serves its queue; a datagram sent to a robot again and again is
  eventually received (`SF`), the usual assumption about a lossy network.
* `RemoteControl`: the timer fires while it is active.
* `SharedFrame`: receiver (once it has a frame), scene view and GUI threads are
  scheduled. No frame and no move of the slider need ever come.

## Proofs

The inductive invariants below hold in TLC on the runs of their components, as
far as TLC can evaluate them (`IInv` of the image segmentation asks for a set of
regions without naming it). The only assumptions are the named `ASSUME`s of the
modules, which give bounds and sizes their types, and what a paragraph names.

`FramePipelineProofs` proves, for every number of frames and clicks:

* `TypeCorrect`: `Spec => []TypeOK`;
* `CreditNeverDuplicated`: `Spec => []OneOutstanding`;
* `PipelineImplementsMailbox`: `Spec => ImplementsMailbox`;
* `CreditNeverLost`: `Spec => []CreditConserved`;
* `FramesAreRemembered`: `Spec => []NoFrameForgotten`;
* `ModeIsTheCheckboxes`: `Spec => []ModeFollowsCheckbox`;
* `RepeatsAreBounded`: `Spec => []BoundedRepeats`.

`OneOutstanding` is not inductive: it needs to know that a thread's stack and
its place agree (`StackMatches`: no activation on the stack outside `matlab` and
`drain`), that the receiver's `start` is the first event it ever takes and
occurs once (`StartFirst`; `start()` sets `mainalgisfree` and would mint a
second credit), and where the one credit is, as a list of mutual exclusions
instead of a set of records (`CreditUnique`). `FramesExist` bounds the numbers
of world states for the refinement. Their conjunction `IInv` is proved
inductive action by action. The refinement maps every step to a step of the
mailbox or a stutter, using the same invariant. Assumption: the bounds are
natural numbers.

The other four rest on `IInv`. That the credit is somewhere (`CreditKept`) needs
the order in which the window stops the threads (`StoppedInOrder`), because a
terminated receiver would take no acknowledgement. A frame is not forgotten since
`start()` comes before the first frame (`NothingBeforeStart`) and may therefore
reset `NewPacket`. The last click in the receiver's queue is what the check box
shows, and if there is none the mode is (`LastClickWins`): that `start()` switches
the mode off is harmless as no click can precede it. A world state goes out a
second time only when an acknowledgement is served between its merge and its
dispatch, which happens in max-frequency mode, so after a click
(`SecondTime`, `NoClickNoMode`). Two lemmas classify all steps by what they do to
clicks (`ClickStep`) and to frames (`FrameStep`).

`WorldStateProofs` proves `RobotsAreMergedAsSeen` (`RobotsMatchHistory`) and
`BallIsMergedAsSeen` (`BallMatchesHistory`) for every number of cameras, robots,
listed robots and frames: the merge, done frame by frame, equals a definition
over the whole log. The invariant `MInv` adds that a robot sighted at all has a
newest sighting, which the `CHOOSE` in the definition needs, and the same for the
ball; the step compares the sightings of the longer log with those of the old one.

`RingBufferProofs` proves `ReaderAndWriterApart`, that reader and writer never
have the same bin, for every size of at least two and every mixture of modes;
the run has a writer that waits (the argument `TRUE`) and a reader of both modes.
The invariant adds that all three indices are in the array. Two more theorems
are about a writer that waits (`WriteModes \subseteq {TRUE}`), whatever the
reader does: `WaitingWriterMakesQueue` (`QueueOfPublished`) and the action
property `SkippingReadsTheNewest` (`SkipReadsNewest`). `JustBehind` says that the
writer has just left the bin before its own, or waited, and that this bin is the
newest but its own; the lemmas before it do the arithmetic of indices modulo
the size.

`RegionSegmentationProofs` proves `ParentsAlwaysPrecede` for images, run and
region tables of any size: no run has a parent after it, while runs are
encoded, joined, compressed and renumbered. That a union of two smaller
representatives preserves this needs that both runs compared exist and that the
copies of their parents precede them (`LockStep`): the run `l2` always lies in the
row before that of `l1`, so the two cursors must change rows together. This
needs in turn that every encoded row has a run that ends at the width, which is
what clear runs at the end of a row are encoded for (`RowsInOrder`). In the
extraction parents become region numbers, and there are never more regions
than runs passed.

It also proves `ChainsAreComplete` (`ChainsFollowRegions`): from its first run on, the
`next` links of a region lead through all of its runs in the order of the image
and end there, full table or not. The extraction looks up a run's region through
its parent, which works only if the parent was extracted, that is, is not clear:
so the proof carries through the whole union-find that a run and its parent
have one colour (`OneColor`), also for the copies `p1` and `p2` and the two climbs.
While extracting, each region's `iterator_id` is its last run so far
(`CanBeLinked`) and its links so far are right (`WellChained`, with a lemma for
a chain that starts, is left alone, or grows). The table may fill up after any
run, which is why the links must be right at every step, and the final pass
that ends the chains changes nothing: an early return may skip it.

`CommandDispatchProofs` proves the three invariants of `CommandDispatch` for
every size of the team, number of rules and backlog: `OnlyWORKMoves`
(`StandStillUnlessWORK`), `SimulatorTellsTruth` (`SimulatorFollowsRobots`) and
`RunsAreObeyed` (`LastRuleStands`). All three speak of the moment between runs;
the invariant says what holds on the way. While the rules are sent each robot
stands as the rules before `row` say, where a run that began paused turns
every one of them into a stop (`RulesObeyed`, with `Fired` the rules passed);
in the pause loop the robots below `row` have been stopped, and the simulator's,
numbered one lower there, those below `row - 1` (`InPauseLoop`): the loop goes
on to a robot more than rules reach, which closes the gap, and that is what
`MAX_NUM_ROBOTS < TeamSize` is assumed for. The label tells whether the
program is paused (`LabelTellsPause`). What the simulator was told has always one of
the two forms of what the robot stands at, and while an unpaused run sends its
rules, the form of the last rule passed that names it (`FormObeyed`). The lemmas on `StandingWith` say what a
signal, a rule's signals and a delivery do to the last command for a robot in a
queue: a delivery changes nothing, which is why the properties can speak of
`Standing` and ignore the connector.

`RobotAddressTableProofs` proves the three invariants of `RobotAddressTable` for
every number of cells, addresses, dialogs and waiting events:
`TableSettlesAsAccepted` (`SettledTableIsAccepted`), `CommandsAreDirected`
(`CommandsGoWhereDue`) and `DialogShowsTable` (`OpenDialogShowsTable`). What the
connector has in hand and in its queue is one FIFO list; `DueAt` says, as a
relation and so without recursion, which address a robot has just before a place
of that list. Each step leaves list and table alone, appends to the list, or
serves its head, and in each case a lemma says how `DueAt` moves. The invariant
`TInv`: at the end of the list a robot is due what was accepted last
(`AcceptedIsDue`), a waiting command carries what is due at its place
(`RunsAreDue`), the cells of a dialog half accepted are posted in order
(`CellsInOrder`), and a dialog opened with nothing on its way shows the table
(`DialogIsFresh`).

`DisplayProofs` proves `ZoomIsTheSliders` (`ZoomFollowsSlider`) for any number of
frames and moves. The invariant says that view, what a request not yet done asks
for (`Pending`) and what was lost add up to the slider. Assumption: the slider has the positions 1 to 20 of `larcmacs.ui`.
It also proves `TornPictureDoesNotLast` (`SettledScreenIsNewest`). When the
newest frame was announced and its redraw is no longer waiting (`Served`), then
either no redraw is going on and the screen equals `detection`, or one is, has
counted this frame and shown a beginning of it (`NewestOnScreen`): whatever was
read before, of whatever frames, a later redraw has replaced. That needs that a
frame still being copied is newer than any announced (`NotYetAnnounced`).

It proves the three properties of `FieldScene`, for any number of cameras and lists of
any length: `NewestRobotsAreShown` (`SceneShowsNewestFrames`), `NewestBallsAreShown`
(`BallsShowNewestFrames`) and `ItemsDoNotPileUp` (`ItemsAreRecycled`). The
invariant is the first two and that no camera and team have fewer items than their
newest frame lists (`EnoughItems`), from which the numbers of items after a step
follow (`Recycling`). The work is in the loop over a list of robots, which
reuses items of the camera and team by position and appends what it lacks. Its
invariant `Placed` says that after n turns the first n robots are shown by items in
increasing places before `j` (`Filled`), that these are all of the camera and
team there, that nobody else's items were touched (`Respects`), and that items were
appended only when there was none left to reuse.

`RobotControlProofs` proves the invariants of `RemoteControl` for every keyboard
and limit of the effort: `MotionsStayInRange` (`TypeOK`, whose arithmetic is that a
motion stays in its range), `ClosingStopsTheRobot` (`ClosedMeansStopped`, which
needs that the timer runs just while the window is shown) and
`KeysAreTheKeyboard` (`KeysFollowKeyboard`, inductive as it stands: every step that
touches a key notes whether the window saw it).

It also proves both properties of `RobotMessage`, for every configuration file, rule
and command of the remote control:

* `RulesAreObeyedAsWritten` (`RulesReachTheRobot`). While the file is read the last
  line so far that names `RULE_LENGTH` has set it (`LengthRead`), so that a rule has
  its columns and none is junk (`LengthIsConfigured`); a number that fits a char comes
  back with its sign from the four bytes written for it (`WordIsRead`), at the place
  where the message has it (`MessagesAreLaidOut`). `RuleWritten` holds from the first
  byte of the checksum to the last.
* `DamageIsAlwaysNoticed` (`DamageIsNoticed`): for every message and every damage
  within 32 consecutive bits, wherever it lies. `Feeds` describes what becomes of the
  register while bits are fed in, and the table's step for a byte is eight of these
  (`NextCrcFeedsByte`): so the invariant `Checked` has the checksum under way equal
  to the reference on the bits so far, and what is sent is accepted. Feeding is
  linear in register and bits (`FeedingIsLinear`): a damaged message is accepted only
  if feeding the damage, and then the register's own bits, to an empty register
  leaves it empty. A register fed its own bits is shifted out (`OwnBitsShiftOut`),
  and one that is not empty stays so while nothing is fed in, because bit 31 belongs
  to the polynomial (`NothingComesOfNothing`). At most 32 bits of damage therefore
  leave a rest (`BurstsLeaveARest`). The argument needs of the polynomial only that
  bit; that table and reference have the same one is not assumed but proved.

`RegionSegmentationProofs` proves four more invariants, for images, lists and numbers
of colours of any size and every radix of at least two (the code's is 64):

* `ListsAreSorted` (`ListsSortedByArea`). `Enumerates` says that a list holds each
  member of a set once, `Before` which of two comes first. A pass keeps the former and
  sorts by one digit, leaving what agrees in it in its order (`InOrder`); after p
  passes those regions are sorted that agree in all but their last p digits
  (`SortedUpTo`); and the passes counted from the largest area leave no digit over
  (`PassesSuffice`).
* `FilterFindsWhatItChecks` (`FilterAgreesWithCheck`): on a sorted list, from the
  first region not too large to the first that is too small lie exactly those of the
  right area (`FilterWalks`).
* `ComponentsAreFound` (`OneParentPerComponent`), the correctness of the union-find.
  The runs draw the image, every pixel of a colour in one run of that colour
  (`Drawn`), and a component is the least set around its pixel that is closed under
  touching (`ComponentIsClosure`, by induction on what the walk leaves of the image).
  One direction: runs the union joins touch, so the parents stay connected
  (`ParentsLinked`). The other: two runs are in the same tree when no set closed under
  parent links parts them (`Same`); two that meet are in the same tree once the scan
  has passed either (`Met`), because what it passes by does not overlap. The union
  cuts the links of l1 and l2 and yet loses nothing, even where the climb from l1 has
  passed l2 (`Climbing`, `UnionLinks`); compression leaves the trees as they are and
  makes every parent a root. The runs of one parent then are `Complete`, no run that
  meets one of theirs is left out (`TreesAreComplete`), and complete runs that are
  connected draw a component (`GroupIsComponent`).
* `RegionsAreMeasured` (`RegionsMeasureComponents`), what extraction makes of this.
  It replaces parents by region numbers as it goes. Two runs already passed have the
  same number just when they are linked (`Together`); this is kept (`Grouped`) because
  a run that is its own parent is the first of its component, and any other comes
  after a run of its region. A region `Measures` the pixels of its runs so far
  (`MInv`): what a run adds, its width, its `rangeSum` and its row times its width, are
  the sums over its pixels (`RowSums`). Sums over sets are defined by recursion over subsets: they
  do not depend on the order (`SumOfMore`, `SumOfUnion`) and are what the library's
  fold computes (`FoldingIsSum`). The areas add up to the coloured pixels because no
  pixel is in two runs (`AreasAddUp`).

What loops compute over data of any length is written with recursive functions. The
library's induction theorems take an operator as a parameter, which the
provers cannot instantiate; induction is therefore said of sets (`EveryNumber`: a set
of naturals with 0 and the successor of each member is all of them), from the
theorem that `<` is well-founded, and gives the existence of the functions
(`RecursionExists`) as well as what they compute.

Only model-checked:

* Liveness (`MaxModeDeliversNewest`, `PausedRobotsStop`, `NoKeysMeansStop`,
  `AnnouncedFrameIsShown`, `ScalingIsServed`): out of the prover's reach.

## Not modelled, and why

The `components` list of `PROJECT.json` gives a reason for each part. In short:
drawing and labels (no property), sockets and multicast (I/O), the matrices of
the MATLAB set-up, the gamepad client (its only use is commented out), third-party
code, and of `macsCommon` what is geometry in floating point, trees of GUI
variables or camera drivers. The repository carries some 170000 lines, of which
the sources of Google's protobuf in `inc` with their tests are by far the most;
LARCmaCS itself has about 3000, and those with state and
control in them are the ones modelled. Nothing more is gained by specifications
of the vendored part, which the program uses as a library.

## Plan

1. Compositions: `CommandDispatch` with `RobotAddressTable` (a stop reaches the
   address a robot has), and `FramePipeline` with `SharedFrame`.
2. Proofs: all safety properties of the runs are proved; the compositions will need
   their own.
