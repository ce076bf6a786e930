---------------------------- MODULE StreamAgent -----------------------------
(***************************************************************************)
(* The stream agent (src/agent/AgentStream.cpp) and its streams: Call, in   *)
(* the processor's thread, gives the command of the FCB to the stream of    *)
(* the server that the IOCB at its head names.  StreamBoot hands out a      *)
(* file, a buffer at a time; StreamWWC answers a read with zeroes;          *)
(* the other streams and the dummy for unknown servers refuse.              *)
(*                                                                          *)
(* The driver is not in the repository.  It gets a buffer ready before it   *)
(* asks for data, may lock it and ask again, and gives no command to a      *)
(* stream that would end the program with an ERROR.  The buffer may be      *)
(* absent, and Call is then executed again.  What only the driver reads is  *)
(* left out: the states of connections, and what it puts.                   *)
(***************************************************************************)
EXTENDS Naturals, Sequences

CONSTANTS
  FileWords,    \* the words of the boot file
  PageWords,    \* the words of a buffer, a page
  AnswerWords   \* the words of StreamWWC's answer

(* StreamPCFA and StreamTCP, which do the same, are "files"; "other" is a    *)
(* server for which Call makes a dummy.                                      *)
Servers  == {"boot", "windows", "files", "copyPaste", "other"}
Commands == {"idle", "accept", "connect", "delete", "read", "write"}

(* The commands that end the program with an ERROR. *)
Refused == [s \in Servers |-> CASE s = "boot"  -> {"idle", "accept", "read"}
                                [] s = "other" -> {}
                                [] OTHER       -> {"accept"}]

VARIABLES
  call,          \* where the processor is in Call
  interrupt,     \* the agent's interrupt is pending
  agentStopped,  \* in the FCB
  fcb,           \* its command and result, and the server of the IOCB at its head
  mesaGet,       \* the transfer record of the IOCB, with what its buffer holds
  pos,           \* of StreamBoot: the words of the file that were handed out
  got,           \* history: the words the driver got since it connected
  ended          \* history: it was told that this was all

known == <<got, ended>>
vars  == <<call, interrupt, agentStopped, fcb, mesaGet, pos, known>>

(* Word n of the file is n, and 0 is a word of zeroes. *)
Words       == 0 .. FileWords
FCB         == [server : Servers, headCommand : Commands,
                headResult : {"completed", "inProgress", "error"}]
TransferRec == [wordsWritten : 0 .. PageWords, endStream : BOOLEAN,
                writeLockedByMesa : BOOLEAN, interruptMesa : BOOLEAN,
                buffer : [1 .. PageWords -> Words], present : BOOLEAN]

TypeOK ==
  /\ call \in {"idle", "stream"} /\ interrupt \in BOOLEAN /\ agentStopped \in BOOLEAN
  /\ fcb \in FCB /\ mesaGet \in TransferRec
  /\ pos \in 0 .. FileWords /\ got \in Seq(Words) /\ ended \in BOOLEAN

Init ==
  /\ call = "idle" /\ interrupt = FALSE /\ agentStopped = TRUE
  /\ fcb = [server |-> "boot", headCommand |-> "idle", headResult |-> "completed"]
  /\ mesaGet = [wordsWritten |-> 0, endStream |-> FALSE, writeLockedByMesa |-> FALSE,
                interruptMesa |-> FALSE, buffer |-> [k \in 1 .. PageWords |-> 0],
                present |-> TRUE]
  /\ pos = 0 /\ got = << >> /\ ended = FALSE

-----------------------------------------------------------------------------
(* The driver. *)
Filled == mesaGet.wordsWritten > 0 \/ mesaGet.endStream

(* It gives a command, when it has taken what the last one brought. *)
Ask(s, c, locked, told, there) ==
  /\ call = "idle" /\ ~ Filled
  /\ c \notin Refused[s]
  /\ (c = "write" /\ s \in {"boot", "windows", "files"}) \/ (~ locked /\ ~ told /\ there)
  /\ fcb' = [fcb EXCEPT !.server = s, !.headCommand = c]
  /\ mesaGet' = [mesaGet EXCEPT !.writeLockedByMesa = locked, !.interruptMesa = told,
                                !.present = there]
  /\ IF s = "boot" /\ c = "connect" THEN got' = << >> /\ ended' = FALSE ELSE UNCHANGED known
  /\ agentStopped' = FALSE /\ call' = "stream"
  /\ UNCHANGED <<interrupt, pos>>

(* It takes what the buffer has, on an interrupt or when Call is back. *)
Take ==
  /\ call = "idle" /\ Filled
  /\ mesaGet' = [mesaGet EXCEPT !.wordsWritten = 0, !.endStream = FALSE]
  /\ interrupt' = FALSE
  /\ IF fcb.server = "boot"
     THEN /\ got' = got \o SubSeq(mesaGet.buffer, 1, mesaGet.wordsWritten)
          /\ ended' = mesaGet.endStream
     ELSE UNCHANGED known
  /\ UNCHANGED <<call, agentStopped, fcb, pos>>

(* Call with stopAgent set does nothing but say that it is stopped. *)
StopAgent ==
  /\ call = "idle" /\ agentStopped' = TRUE
  /\ UNCHANGED <<call, interrupt, fcb, mesaGet, pos, known>>

-----------------------------------------------------------------------------
(* Call gives the command to the stream, whose result is headResult. *)
Serve(c, s) == call = "stream" /\ fcb.headCommand = c /\ fcb.server \in s
Answer(r) ==
  /\ fcb' = [fcb EXCEPT !.headResult = r]
  /\ call' = "idle"
  /\ UNCHANGED <<agentStopped, known>>

(* What a stream only refuses.  StreamCopyPaste reads the head of the message *)
(* it is put first; it and StreamWWC refuse a connection they note as made.  *)
Refuse ==
  /\ \/ \E c \in {"accept", "delete", "read"} : Serve(c, Servers)
     \/ Serve("connect", Servers \ {"boot"})
     \/ Serve("write", {"copyPaste", "other"})
     \/ Serve("write", {"files"}) /\ ~ mesaGet.writeLockedByMesa
     \/ Serve("idle", {"other"})
  /\ Answer("error")
  /\ UNCHANGED <<interrupt, mesaGet, pos>>
Idle ==
  /\ Serve("idle", {"windows", "files", "copyPaste"}) /\ Answer("completed")
  /\ UNCHANGED <<interrupt, mesaGet, pos>>

(* Mutant: the file is not rewound. *)
ConnectOn ==
  /\ Serve("connect", {"boot"}) /\ Answer("completed")
  /\ UNCHANGED <<interrupt, mesaGet, pos>>

(* StreamBoot starts its file anew. *)
Connect ==
  /\ Serve("connect", {"boot"}) /\ Answer("completed")
  /\ pos' = 0
  /\ UNCHANGED <<interrupt, mesaGet>>

(* A locked record is left alone. *)
Locked ==
  /\ Serve("write", {"boot", "windows", "files"}) /\ mesaGet.writeLockedByMesa
  /\ Answer("inProgress")
  /\ UNCHANGED <<interrupt, mesaGet, pos>>

(* Store faults before anything is changed; CALLAGENT is executed again. *)
Fault ==
  /\ Serve("write", {"boot", "windows"})
  /\ ~ mesaGet.writeLockedByMesa /\ ~ mesaGet.present
  /\ mesaGet' = [mesaGet EXCEPT !.present = TRUE]
  /\ UNCHANGED <<call, interrupt, agentStopped, fcb, pos, known>>

(* The words go to the buffer, and it interrupts if it is told to. *)
Fill(words, last) ==
  /\ ~ mesaGet.writeLockedByMesa /\ mesaGet.present
  /\ mesaGet' = [mesaGet EXCEPT
        !.buffer = [k \in 1 .. PageWords |-> IF k \in DOMAIN words THEN words[k] ELSE @[k]],
        !.wordsWritten = Len(words), !.endStream = @ \/ last]
  /\ interrupt' = (interrupt \/ mesaGet.interruptMesa)
  /\ Answer("completed")

BootWrite ==
  /\ Serve("write", {"boot"})
  /\ LET size == IF FileWords < pos + PageWords THEN FileWords - pos ELSE PageWords
     IN  pos' = pos + size /\ Fill([k \in 1 .. size |-> pos + k], pos + size = FileWords)

WWCWrite ==
  /\ Serve("write", {"windows"})
  /\ Fill([k \in 1 .. AnswerWords |-> 0], FALSE)
  /\ UNCHANGED pos

Call == Refuse \/ Idle \/ Connect \/ Locked \/ Fault \/ BootWrite \/ WWCWrite

Next ==
  \/ \E s \in Servers, c \in Commands, locked, told, there \in BOOLEAN :
       Ask(s, c, locked, told, there)
  \/ Take \/ StopAgent
  \/ Call

Spec == Init /\ [][Next]_vars /\ WF_vars(Call)

-----------------------------------------------------------------------------
(* Since it connected the driver got the boot file from its first word on,   *)
(* in order and without gaps, whatever it asked of other streams meanwhile,  *)
(* and is told the end exactly when it has all of it: a locked record, a     *)
(* fault or a new connection in the middle loses and repeats nothing.        *)
FileDelivered ==
  /\ TypeOK
  /\ got = [k \in 1 .. Len(got) |-> k]
  /\ (call = "idle" /\ ~ Filled) =>
       Len(got) = pos /\ (ended <=> pos = FileWords)
=============================================================================
