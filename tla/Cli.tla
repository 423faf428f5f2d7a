--------------------------------- MODULE Cli --------------------------------
(***************************************************************************)
(* The interactive client (src/examples/cli.rs).  It has no session: a     *)
(* reader thread stores the layout and the tree of each full sync, each    *)
(* under a lock of its own, and a prompt thread encodes commands through   *)
(* the stored layout and writes their frames one by one after it has let   *)
(* go of the lock.  Three locks matter: those of the two stores and that   *)
(* of the standard input.  A lock taken and released within one action     *)
(* only shows in its guard.                                                *)
(***************************************************************************)
EXTENDS Console

CONSTANTS
  Commands,  (* what the user may type: an address and a number of frames; *)
             (* raw-press and its like are one frame to a mix cell         *)
  RawPaths,  (* the paths the user may type                                *)
  MaxOutbox  (* bound on the frames in flight when a line is typed         *)

ASSUME CommandsAssumption ==
  /\ \A c \in Commands : c.address \in AllAddresses /\ c.frames \in Nat
  /\ RawPaths \subseteq Seq(Nat)

VARIABLES
  layout,   (* Mutex<Option<Layout>>                                       *)
  root,     (* Mutex<Option<Node>>                                         *)
  parsed,   (* reader thread: the tree it has yet to store in root         *)
  reader,   (* reader thread: "reading", "storing" or "announcing"         *)
  prompt,   (* prompt thread: what it does                                 *)
  pending,  (* prompt thread: the frames it has yet to write               *)
  held,     (* who holds each lock: "nobody", "reader", "prompt", or for   *)
            (* the standard input the place in the code that locked it     *)
  open,     (* the transport works                                         *)
  seen,     (* history: the topology the last frame read spoke of          *)
  synced    (* history: the topology of the last full sync accepted, or 0  *)

storeVars == <<layout, root, parsed, seen, synced>>
readerVars == <<storeVars, reader>>
promptVars == <<prompt, pending>>
clientVars == <<readerVars, promptVars, held, open>>
vars == <<consoleVars, clientVars>>

(* Over TCP the console streams a full sync unasked; over USB it is silent *)
(* until it has the handshake.  The loop over the lines of the standard    *)
(* input locks it once and for all.                                        *)
Init ==
  /\ topologies = <<InitialTree>>
  /\ \/ connected = TRUE /\ inbox = <<FullSync(InitialTree, 1)>> /\ outbox = <<>>
     \/ connected = FALSE /\ inbox = <<>> /\ outbox = <<Handshake>>
  /\ layout = {} /\ root = {} /\ parsed = {} /\ reader = "reading"
  /\ prompt = "loop" /\ pending = <<>>
  /\ held = [stdin |-> "loop", layout |-> "nobody", root |-> "nobody"]
  /\ open = TRUE
  /\ seen = 1 /\ synced = 0

Free(lock) == held[lock] = "nobody"

-----------------------------------------------------------------------------
(* The reader thread: handle_body.                                         *)

(* The next frame, once the last one has been dealt with.                  *)
TakeFrame ==
  /\ open
  /\ reader = "reading"
  /\ inbox # <<>>
  /\ inbox' = Tail(inbox)
  /\ seen' = Head(inbox).at
  /\ UNCHANGED <<topologies, connected, outbox, root, promptVars, held, open>>

Keep == UNCHANGED <<layout, parsed, synced, reader>>

Store(frame) ==
  /\ layout' = FromFullSync(frame.tree)
  /\ parsed' = {frame.tree}
  /\ synced' = frame.at
  /\ reader' = "storing"

(* The tree of every full sync is stored.                                  *)
HandleBodyStoringAll ==
  LET frame == Head(inbox)
  IN  /\ TakeFrame
      /\ Free("layout")
      /\ \/ /\ frame.kind = "fullSync"
            /\ layout' = IF Supported(frame.tree) THEN FromFullSync(frame.tree)
                                                  ELSE layout
            /\ parsed' = {frame.tree}
            /\ synced' = frame.at
            /\ reader' = "storing"
         \/ frame.kind # "fullSync" /\ Keep

(* Only the first full sync is taken.                                      *)
HandleBodyOnce ==
  LET frame == Head(inbox)
      first == frame.kind = "fullSync" /\ Supported(frame.tree) /\ layout = {}
  IN  /\ TakeFrame
      /\ Free("layout")
      /\ \/ first /\ Store(frame)
         \/ ~first /\ Keep

(* A full sync that makes a layout replaces it; one that makes none leaves *)
(* the old one, and so does every other frame, which is decoded with the   *)
(* layout locked.                                                          *)
HandleBody ==
  LET frame == Head(inbox)
  IN  /\ TakeFrame
      /\ \/ /\ frame.kind = "fullSync" /\ Supported(frame.tree)
            /\ Free("layout")
            /\ Store(frame)
         \/ /\ frame.kind = "fullSync" /\ ~Supported(frame.tree)
            /\ Keep
         \/ /\ frame.kind # "fullSync"
            /\ Free("layout")
            /\ Keep

(* The lock of the tree kept while that of the layout is taken again.      *)
StoreRootMutant ==
  /\ prompt # "ended"
  /\ \/ /\ reader = "storing" /\ Free("root")
        /\ root' = parsed
        /\ parsed' = {}
        /\ reader' = "nested"
        /\ held' = [held EXCEPT !.root = "reader"]
     \/ /\ reader = "nested" /\ Free("layout")
        /\ reader' = "reading"
        /\ held' = [held EXCEPT !.root = "nobody"]
        /\ UNCHANGED <<root, parsed>>
  /\ UNCHANGED <<consoleVars, layout, seen, synced, promptVars, open>>

(* With `watch` on, the initial state is announced next.                   *)
StoreRoot ==
  /\ prompt # "ended"
  /\ reader = "storing" /\ Free("root")
  /\ root' = parsed
  /\ parsed' = {}
  /\ reader' \in {"announcing", "reading"}
  /\ UNCHANGED <<consoleVars, layout, seen, synced, promptVars, held, open>>

(* The layout is locked a second time, to decode the full sync with.       *)
Announce ==
  /\ prompt # "ended"
  /\ reader = "announcing" /\ Free("layout")
  /\ reader' = "reading"
  /\ UNCHANGED <<consoleVars, storeVars, promptVars, held, open>>

(* What decode_event makes of an incremental event.                        *)
EventAddress(frame) == UNION {Resolve(l, frame.path) : l \in layout}

-----------------------------------------------------------------------------
(* The prompt thread: repl, dispatch.                                      *)

(* A line can be read by whoever finds the standard input free or has      *)
(* locked it: the loop, and the question that `power` asks.                *)
Reading(place) ==
  /\ prompt = place
  /\ held.stdin \in {"nobody", place}
  /\ pending = <<>> /\ Len(outbox) < MaxOutbox

PowerOff == [address |-> Address("SYSTEM", <<>>), frames |-> 1]

Offered == [loop |-> Commands, confirmation |-> {PowerOff}]

(* one_shot, raw_request: nothing is encoded without a layout, or for a    *)
(* node it does not have.                                                  *)
Encode ==
  /\ \E place \in DOMAIN Offered :
       /\ Reading(place)
       /\ \E command \in Offered[place] : \E l \in layout :
            \E path \in PathOf(l, command.address) :
              pending' = [i \in 1 .. command.frames |->
                            Write(path, command.address, synced)]
  /\ prompt' = "loop"
  /\ UNCHANGED <<consoleVars, readerVars, held, open>>

(* A line that makes no frame: help, watch, layout, dump-node,             *)
(* dump-schema, a command that is refused, an answer that is not `yes`.    *)
MakeNothing ==
  /\ \E place \in DOMAIN Offered : Reading(place)
  /\ prompt' = "loop"
  /\ UNCHANGED <<consoleVars, readerVars, pending, held, open>>

(* `power` asks before it encodes.                                         *)
AskForYes ==
  /\ Reading("loop")
  /\ prompt' = "confirmation"
  /\ UNCHANGED <<consoleVars, readerVars, pending, held, open>>

(* raw_write: the path is as typed, no layout is needed.                   *)
RawWrite ==
  /\ Reading("loop")
  /\ \E path \in RawPaths :
       pending' = <<Write(path, Address("as typed", path), synced)>>
  /\ UNCHANGED <<consoleVars, readerVars, prompt, held, open>>

(* The outcome of a write is not looked at.                                *)
WriteFrameMutant ==
  /\ pending # <<>>
  /\ outbox' = Append(outbox, Head(pending))
  /\ pending' = Tail(pending)
  /\ UNCHANGED <<topologies, connected, inbox, readerVars, prompt, held, open>>

(* A write that fails is reported, and the frames after it are dropped.    *)
WriteFrame ==
  /\ pending # <<>>
  /\ \/ /\ open
        /\ outbox' = Append(outbox, Head(pending))
        /\ pending' = Tail(pending)
     \/ /\ ~open
        /\ pending' = <<>>
        /\ UNCHANGED outbox
  /\ UNCHANGED <<topologies, connected, inbox, readerVars, prompt, held, open>>

Refresh ==
  /\ Reading("loop")
  /\ outbox' = IF open THEN Append(outbox, Handshake) ELSE outbox
  /\ UNCHANGED <<topologies, connected, inbox, clientVars>>

(* dump_cell locks the layout, and with it the tree.  Without a layout     *)
(* it lets go again, which MakeNothing covers.                             *)
DumpLayout ==
  /\ Reading("loop")
  /\ layout # {} /\ Free("layout")
  /\ held' = [held EXCEPT !.layout = "prompt"]
  /\ prompt' = "locking"
  /\ UNCHANGED <<consoleVars, readerVars, pending, open>>

DumpRoot ==
  /\ prompt = "locking" /\ Free("root")
  /\ held' = [held EXCEPT !.root = "prompt"]
  /\ prompt' = "dumping"
  /\ UNCHANGED <<consoleVars, readerVars, pending, open>>

(* The cell is printed, if there is a tree.                                *)
Dumped ==
  /\ prompt = "dumping"
  /\ held' = [held EXCEPT !.layout = "nobody", !.root = "nobody"]
  /\ prompt' = "loop"
  /\ UNCHANGED <<consoleVars, readerVars, pending, open>>

(* Mix outputs numbered from 1.                                            *)
DumpedCellMutant(tree, source, mix) ==
  {p \in 0 .. Len(tree) - 1 :
     /\ tree[p + 1].name = "MIX"
     /\ Rank(Names(tree), p) = source * MixPerSource + mix + 1}

(* The position of the MIX node that is printed for a cell, counting the   *)
(* MIX nodes of the stored tree.                                           *)
DumpedCell(tree, source, mix) ==
  {p \in 0 .. Len(tree) - 1 :
     /\ tree[p + 1].name = "MIX"
     /\ Rank(Names(tree), p) = source * MixPerSource + mix}

-----------------------------------------------------------------------------
(* The console knows of the connection no more; what was under way on it   *)
(* is lost.                                                                *)
Cut ==
  /\ open' = FALSE
  /\ connected' = FALSE
  /\ inbox' = <<>> /\ outbox' = <<>>
  /\ UNCHANGED <<topologies, readerVars, pending, held>>

(* The transport fails; the reader thread ends, the prompt thread goes on. *)
Hangup == open /\ Cut /\ UNCHANGED prompt

(* `quit`, or the end of the input, ends the process.                      *)
Quit == Reading("loop") /\ Cut /\ prompt' = "ended"

ConsoleStep == ConsoleNext /\ UNCHANGED clientVars

Next == \/ HandleBody \/ StoreRoot \/ Announce
        \/ Encode \/ MakeNothing \/ AskForYes \/ RawWrite \/ WriteFrame
        \/ Refresh \/ DumpLayout \/ DumpRoot \/ Dumped \/ Quit
        \/ Hangup \/ ConsoleStep

Spec == Init /\ [][Next]_vars

(* Both threads run, and whoever waits for a lock that is free again and   *)
(* again gets it; the console serves what it was sent.  The user need not  *)
(* type anything, but answers when asked.                                  *)
FairSpec ==
  /\ Spec
  /\ SF_vars(HandleBody) /\ SF_vars(StoreRoot) /\ SF_vars(Announce)
  /\ WF_vars(DumpRoot) /\ WF_vars(Dumped) /\ WF_vars(WriteFrame)
  /\ WF_vars(prompt = "confirmation" /\ (Encode \/ MakeNothing))
  /\ SF_vars(AnswerHandshake /\ UNCHANGED clientVars)
  /\ SF_vars(CarryOutWrite /\ UNCHANGED clientVars)
=============================================================================
