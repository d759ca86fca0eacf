-------------------------- MODULE Stk500Programmer --------------------------
(***************************************************************************)
(* plugins/stk500v1: flashing a microcontroller over a serial port.  The   *)
(* programmer is a chain of callbacks driven by a loop function, which     *)
(* compares what the target answers with the expected response and watches *)
(* two timeouts.  The target is external: it obeys, garbles or ignores     *)
(* commands, answers late or not at all, sends bytes nobody asked for, or  *)
(* leaves its boot loader.                                                 *)
(*                                                                         *)
(* The file is a sequence of records of at most 16 bytes; a record is the  *)
(* number of the flash page it belongs to, its data is its position in the *)
(* file, and the data of a page is the set of its records.                 *)
(***************************************************************************)
EXTENDS Naturals, Sequences, FiniteSets, SequencesExt

CONSTANTS
    File,        \* the page of each record
    MaxRetries,  \* 12 attempts to synchronize
    RetrySize,   \* 2^8, _retries is an uint8_t
    ResetEvery,  \* 4, attempts per reset of the target
    MaxFaults,   \* bound: how often the target or the line misbehaves
    PortSize,    \* bound: commands in the target's buffer, the rest is lost
    None

ASSUME FileAssumption ==
    /\ File \in Seq(Nat)
    /\ \A j, k \in DOMAIN File : j <= k => File[j] <= File[k]
ASSUME RetriesAssumption ==
    /\ MaxRetries \in Nat /\ RetrySize \in Nat /\ MaxRetries < RetrySize
    /\ ResetEvery \in Nat \ {0} /\ MaxFaults \in Nat /\ PortSize \in Nat

(* The callbacks that wait for a response, and those of a delay.           *)
Early == {"sync", "signature", "options", "enter"}
Late == {"verifyAddress", "verify", "leave"}
Awaited == Early \cup {"writeAddress", "write"} \cup Late
Delays == {"flash", "signature", "resync", "sync", "end"}

ASSUME NoneAssumption == None \notin Awaited \cup Delays

VARIABLES
    stage,    \* none, created, running, closing
    serialLoop, \* SerialHandler::serialLoop and the AT mode own the port
    checking, \* _loopFunction() is between its two halves
    prog,     \* the members of STK500v1Programmer
    tx,       \* commands on their way to the target
    rx,       \* bytes that have arrived from it
    boot,     \* the target runs its boot loader
    address,  \* the page the target has been told
    flash,    \* its flash memory
    faults,   \* how often something has gone wrong
    sent      \* history: the pages sent for programming

flashVars == <<stage, serialLoop, checking, prog, tx, rx, boot, address, flash, faults, sent>>

Pages == {0} \cup {File[k] : k \in DOMAIN File}
RecordsOf(p) == {k \in DOMAIN File : File[k] = p}

(* A byte of an answer: in sync, ok, signature, data, or anything else.    *)
Byte(kind) == [kind |-> kind, data |-> {}]
Data(d) == [kind |-> "data", data |-> d]
InSync == <<Byte("insync"), Byte("ok")>>
Signature == <<Byte("insync"), Byte("signature"), Byte("ok")>>
PageRead(d) == IF d = {} THEN InSync ELSE <<Byte("insync"), Data(d), Byte("ok")>>

Command(c) == [cmd |-> c, page |-> 0, data |-> {}]
Program(p, d) == [cmd |-> "program", page |-> p, data |-> d]

Rewound == [pos |-> 1, page |-> 0, buffer |-> {}]

Fresh == [waiting |-> None, delayed |-> None, deadline |-> None, retries |-> 0,
          expected |-> <<>>, response |-> <<>>, reader |-> Rewound, page |-> 0, data |-> {},
          last |-> FALSE, reset |-> FALSE, out |-> <<>>, logging |-> TRUE, verdicts |-> {}]

FlashInit ==
    /\ stage = "none"
    /\ serialLoop = TRUE
    /\ checking = FALSE
    /\ prog = Fresh
    /\ tx = <<>>
    /\ rx = <<>>
    /\ boot = FALSE
    /\ address = 0
    /\ flash = [p \in Pages |-> {}]
    /\ faults = 0
    /\ sent = <<>>

-----------------------------------------------------------------------------
(* Parts of the callbacks: what they make of the members p.                *)

Expect(p, bytes) == [p EXCEPT !.expected = bytes, !.response = <<>>]

(* _serialWrite, _response.clear() and _setTimeout                         *)
Send(p, c) == [p EXCEPT !.out = Append(@, c), !.response = <<>>, !.deadline = "armed"]

(* _sendCommand_P and _sendCommand send nothing without logging.           *)
SendP(p, c) == IF p.logging THEN Send(p, Command(c))
               ELSE [p EXCEPT !.response = <<>>, !.deadline = "armed"]

(* _readResponse                                                           *)
Await(p, w) == [p EXCEPT !.waiting = w]

(* _clearResponse and _delay: the timeout is compared with millis(), so it *)
(* is always over in the next iteration.                                   *)
Delay(p, d) == [p EXCEPT !.delayed = d]

Done(p, ok) == Delay([p EXCEPT !.verdicts = @ \cup {ok}], "end")

(* Mutant of NextPage: the record that begins a page is lost.              *)
NextPageLoses(r) ==
    LET end == CHOOSE k \in r.pos..Len(File) + 1 :
                  /\ k = Len(File) + 1 \/ File[k] # r.page
                  /\ \A j \in r.pos..k-1 : File[j] = r.page
    IN  [data |-> r.buffer \cup r.pos..end-1,
         last |-> end > Len(File),
         reader |-> IF end > Len(File) THEN [pos |-> end, page |-> 0, buffer |-> {}]
                    ELSE [pos |-> end + 1, page |-> File[end], buffer |-> {}]]

(* _readFile: records are collected until one belongs to another page or   *)
(* the file ends.                                                          *)
NextPage(r) ==
    LET end == CHOOSE k \in r.pos..Len(File) + 1 :
                  /\ k = Len(File) + 1 \/ File[k] # r.page
                  /\ \A j \in r.pos..k-1 : File[j] = r.page
    IN  [data |-> r.buffer \cup r.pos..end-1,
         last |-> end > Len(File),
         reader |-> IF end > Len(File) THEN [pos |-> end, page |-> 0, buffer |-> {}]
                    ELSE [pos |-> end + 1, page |-> File[end], buffer |-> {end}]]

(* _readFile with _writePage or _verifyPage: the address is sent first.    *)
ReadFile(p, w) ==
    LET n == NextPage(p.reader)
        q == [p EXCEPT !.reader = n.reader, !.page = p.reader.page, !.data = n.data,
                       !.last = n.last]
    IN  Await(Send(Expect(q, InSync), [Command("address") EXCEPT !.page = q.page]), w)

Rewind(p) == [p EXCEPT !.reader = Rewound]

(* The success callbacks                                                   *)
OnSuccess(p) ==
    CASE p.waiting = "sync" -> Delay(p, "signature")
      [] p.waiting = "signature" -> Await(Send(Expect(p, InSync), Command("options")), "options")
      [] p.waiting = "options" -> Await(SendP(Expect(p, InSync), "enter"), "enter")
      [] p.waiting = "enter" -> ReadFile(Rewind(p), "writeAddress")
      [] p.waiting = "writeAddress" ->
            Await(Send(Expect(p, InSync), Program(p.page, p.data)), "write")
      [] p.waiting = "write" -> IF p.last THEN ReadFile(Rewind(p), "verifyAddress")
                                ELSE ReadFile(p, "writeAddress")
      [] p.waiting = "verifyAddress" ->
            Await(Send(Expect(p, PageRead(p.data)), [Command("read") EXCEPT !.data = p.data]),
                  "verify")
      [] p.waiting = "verify" -> IF p.last THEN Await(SendP(Expect(p, InSync), "leave"), "leave")
                                 ELSE ReadFile(p, "verifyAddress")
      [] p.waiting = "leave" -> Done(p, TRUE)

(* The failure callbacks: all but the first give up.                       *)
OnFailure(p) ==
    IF p.waiting = "sync" /\ p.retries # 0
    THEN Delay([p EXCEPT !.retries = @ - 1], "resync")
    ELSE Done([p EXCEPT !.retries = (@ + RetrySize - 1) % RetrySize], FALSE)

(* What is done after a delay.                                             *)
Sync(p, n) == [SendP(p, "sync") EXCEPT !.out = @ \o [k \in 1..n-1 |-> Command("sync")]]
SyncTimes(p, n) == IF p.logging THEN Sync(p, n) ELSE SendP(p, "sync")
ResetTarget(p) == [p EXCEPT !.reset = TRUE]

OnDelay(d, p) ==
    CASE d = "flash" ->
            Await([SyncTimes(ResetTarget(Expect(p, InSync)), 3) EXCEPT !.retries = MaxRetries],
                  "sync")
      [] d = "signature" -> Await(SendP(Expect(p, Signature), "signature"), "signature")
      [] d = "resync" -> IF p.retries % ResetEvery = 0
                         THEN Delay(ResetTarget([p EXCEPT !.response = <<>>]), "sync")
                         ELSE SendP(p, "sync")
      [] d = "sync" -> SyncTimes(p, 4)
      [] d = "end" -> Expect(p, <<>>)

-----------------------------------------------------------------------------
(* What has been written to the port reaches the target.  The reset line   *)
(* restarts it in the boot loader.                                         *)
Transmit(q) ==
    LET all == (IF q.reset THEN <<>> ELSE tx) \o q.out
    IN  /\ prog' = [q EXCEPT !.out = <<>>, !.reset = FALSE]
        /\ boot' = (boot \/ q.reset)
        /\ tx' = SubSeq(all, 1, IF Len(all) < PortSize THEN Len(all) ELSE PortSize)
        /\ sent' = IF \E k \in DOMAIN q.out : q.out[k].cmd = "program" THEN sent \o q.out
                   ELSE sent

(* AT+STK500V1F; the object exists from now on.                            *)
Create ==
    /\ stage = "none"
    /\ stage' = "created"
    /\ \E l \in BOOLEAN : prog' = [Fresh EXCEPT !.logging = l]
    /\ sent' = <<>>
    /\ UNCHANGED <<serialLoop, checking, tx, rx, boot, address, flash, faults>>

(* begin() and _flash(), after 1 s; the input file is valid or not.        *)
Begin ==
    /\ stage = "created"
    /\ stage' = "running"
    /\ serialLoop' = FALSE
    /\ \E d \in {"flash", "end"} : prog' = Delay(prog, d)
    /\ UNCHANGED <<checking, tx, rx, boot, address, flash, faults, sent>>

(* _loopFunction: the callback of a delay; nothing else in this iteration. *)
(* _clearResponse also throws away what has arrived.                       *)
LoopDelay ==
    /\ stage = "running" /\ ~checking
    /\ prog.delayed # None
    /\ Transmit(OnDelay(prog.delayed, [prog EXCEPT !.delayed = None]))
    /\ rx' = IF prog.delayed \in {"signature", "resync", "end"} THEN <<>> ELSE rx
    /\ IF prog.delayed = "end" THEN stage' = "closing" /\ serialLoop' = TRUE
                               ELSE UNCHANGED <<stage, serialLoop>>
    /\ UNCHANGED <<checking, address, flash, faults>>

(* Mutant of Answer: a response of the right length is taken for right.    *)
AnswerLength(p) == OnSuccess(p)

Answer(p) == IF p.response = p.expected THEN OnSuccess(p) ELSE OnFailure(p)

(* A callback that goes on with _readFile() finds the file unreadable.     *)
FileError(p) ==
    IF p.response = p.expected /\ p.waiting \in {"enter", "write", "verify"}
       /\ (p.waiting = "verify" => ~p.last)
    THEN {Done(p, FALSE)} ELSE {}

(* ... or its first half: bytes are read until the response is as long as  *)
(* the expected one.                                                       *)
LoopRead ==
    /\ stage = "running" /\ ~checking
    /\ prog.delayed = None
    /\ checking' = TRUE
    /\ LET missing == Len(prog.expected) - Len(prog.response)
           complete == missing \in 1..Len(rx)
           n == IF complete THEN missing ELSE Len(rx)
           p == [prog EXCEPT !.response = @ \o SubSeq(rx, 1, n)]
       IN  /\ rx' = SubSeq(rx, n + 1, Len(rx))
           /\ \E q \in (IF complete THEN {Answer(p)} \cup FileError(p) ELSE {p}) : Transmit(q)
    /\ UNCHANGED <<stage, serialLoop, address, flash, faults>>

(* Mutant of LoopCheck: the failure callback is not run.                   *)
LoopCheckNever ==
    /\ checking
    /\ checking' = FALSE
    /\ Transmit(prog)
    /\ UNCHANGED <<stage, serialLoop, rx, address, flash, faults>>

(* The second half: the timeout, which nothing ever clears.                *)
LoopCheck ==
    /\ checking
    /\ checking' = FALSE
    /\ Transmit(IF prog.deadline = "over" THEN OnFailure(prog) ELSE prog)
    /\ UNCHANGED <<stage, serialLoop, rx, address, flash, faults>>

Loop == LoopDelay \/ LoopRead \/ LoopCheck

Expire ==
    /\ prog.deadline = "armed"
    /\ prog' = [prog EXCEPT !.deadline = "over"]
    /\ UNCHANGED <<stage, serialLoop, checking, tx, rx, boot, address, flash, faults, sent>>

(* The timer of end(), after 1 s: the object is deleted.                   *)
Cleanup ==
    /\ stage = "closing"
    /\ ~checking
    /\ stage' = "none"
    /\ prog' = Fresh
    /\ UNCHANGED <<serialLoop, checking, tx, rx, boot, address, flash, faults, sent>>

-----------------------------------------------------------------------------
(* The target                                                              *)
ReplyTo(c) ==
    CASE c.cmd = "signature" -> Signature
      [] c.cmd = "read" -> PageRead(IF c.data = {} THEN {} ELSE flash[address])
      [] OTHER -> InSync

Obey(c) ==
    /\ address' = IF c.cmd = "address" THEN c.page ELSE address
    /\ flash' = IF c.cmd = "program" /\ c.data # {} THEN [flash EXCEPT ![address] = c.data]
                ELSE flash

TargetObeys ==
    /\ boot /\ tx # <<>>
    /\ Obey(Head(tx))
    /\ rx' = IF stage = "running" THEN rx \o ReplyTo(Head(tx)) ELSE rx
    /\ tx' = Tail(tx)
    /\ UNCHANGED <<stage, serialLoop, checking, prog, boot, faults, sent>>

TargetIgnores ==
    /\ ~boot /\ tx # <<>>
    /\ tx' = Tail(tx)
    /\ UNCHANGED <<stage, serialLoop, checking, prog, rx, boot, address, flash, faults, sent>>

(* The answer is lost, the command is lost, the data are garbled, bytes    *)
(* arrive that nobody asked for, or the boot loader gives up.              *)
Fault ==
    /\ faults < MaxFaults
    /\ faults' = faults + 1
    /\ stage = "running"
    /\ \/ /\ tx # <<>> /\ boot
          /\ Obey(Head(tx)) \/ UNCHANGED <<address, flash>>
          /\ tx' = Tail(tx)
          /\ UNCHANGED <<rx, boot>>
       \/ /\ tx # <<>> /\ boot
          /\ Head(tx).cmd = "program" /\ Head(tx).data # {}
          /\ flash' = [flash EXCEPT ![address] = {0}]
          /\ rx' = rx \o InSync
          /\ tx' = Tail(tx)
          /\ UNCHANGED <<boot, address>>
       \/ /\ \E bytes \in {InSync, <<Byte("other")>>} : rx' = rx \o bytes
          /\ UNCHANGED <<tx, boot, address, flash>>
       \/ /\ boot
          /\ boot' = FALSE
          /\ UNCHANGED <<tx, rx, address, flash>>
    /\ UNCHANGED <<stage, serialLoop, checking, prog, sent>>

FlashNext ==
    \/ Create \/ Begin \/ Loop \/ Expire \/ Cleanup
    \/ TargetObeys \/ TargetIgnores \/ Fault

FlashSpec == FlashInit /\ [][FlashNext]_flashVars

(* loop() and the timers run, time passes; nothing is asked of the target. *)
FlashFairSpec ==
    /\ FlashSpec
    /\ WF_flashVars(Begin) /\ WF_flashVars(Loop)
    /\ WF_flashVars(Expire) /\ WF_flashVars(Cleanup)

-----------------------------------------------------------------------------
Records == SUBSET (0..Len(File))   \* 0 stands for garbled data
Bytes == [kind : {"insync", "ok", "signature", "data", "other"}, data : Records]
Commands == [cmd : {"sync", "signature", "options", "enter", "address", "program", "read",
                    "leave"},
             page : Pages, data : Records]
Programmer ==
    [waiting : Awaited \cup {None}, delayed : Delays \cup {None},
     deadline : {None, "armed", "over"}, retries : 0..RetrySize - 1,
     expected : Seq(Bytes), response : Seq(Bytes),
     reader : [pos : 1..Len(File) + 1, page : Pages, buffer : Records],
     page : Pages, data : Records, last : BOOLEAN, reset : BOOLEAN, out : Seq(Commands),
     logging : BOOLEAN, verdicts : SUBSET BOOLEAN]

FlashTypeOK ==
    /\ stage \in {"none", "created", "running", "closing"}
    /\ serialLoop \in BOOLEAN /\ checking \in BOOLEAN /\ boot \in BOOLEAN
    /\ prog \in Programmer
    /\ tx \in Seq(Commands) /\ Len(tx) <= PortSize
    /\ rx \in Seq(Bytes)
    /\ address \in Pages
    /\ flash \in [Pages -> Records]
    /\ faults \in 0..MaxFaults
    /\ sent \in Seq(Commands)

Flashed == \A k \in DOMAIN File : flash[File[k]] = RecordsOf(File[k])

(* "Programming successful" is only said when the flash memory holds the   *)
(* file, although up to MaxFaults messages were lost, garbled or invented. *)
(* It takes four to imitate the answers to a lost address, when it is      *)
(* written and when it is verified.                                        *)
SuccessIsVerified ==
    [][(TRUE \in prog'.verdicts \ prog.verdicts) => Flashed]_flashVars

(* Every page of the file is sent once, in ascending order and complete    *)
(* (and page 0, if empty, as a page of length 0): what has been sent       *)
(* before a page are the pages below it.                                   *)
PagesInOrder ==
    \A k \in DOMAIN sent :
       /\ sent[k].page \in Pages
       /\ sent[k] = Program(sent[k].page, RecordsOf(sent[k].page))
       /\ {sent[j].page : j \in 1..k-1} = {p \in Pages : p < sent[k].page}

(* Whatever the target does, the programmer comes to an end, is deleted,   *)
(* and the console has its port back.                                      *)
GivesBack == stage = "running" ~> stage = "none" /\ serialLoop

(* The user is told once how it went (_done(bool success)).                *)
OneVerdict == Cardinality(prog.verdicts) <= 1
=============================================================================
