----------------------------- MODULE StreamFramer -----------------------------
(****************************************************************************)
(* inet256ipc: the layout of messages, and StreamFramer, which sends them   *)
(* as frames with a length in front over a stream.  Goroutines write and    *)
(* read one byte at a time here, so that only the locks wmu and rmu keep    *)
(* frames apart.  Frames are read into pooled buffers, and ServeNode copies *)
(* a request out of the buffer before its goroutine uses it.                *)
(*                                                                          *)
(* A type, a request id and a JSON body are one byte each, an address is    *)
(* two; a byte is a number.                                                 *)
(****************************************************************************)
EXTENDS Naturals, Sequences, FiniteSets

CONSTANTS
  Msg,         \* the messages that goroutines send, as records
  MTU,         \* the largest payload
  Reader,      \* read loops
  Buf,         \* buffers that the pool can come to hold
  None

VARIABLES
  todo,        \* messages not sent yet
  wmu,         \* the message whose writer holds wmu, or None
  left,        \* what that writer has still to write
  stream,      \* bytes written and not read
  crashed,     \* a goroutine panicked
  rmu,         \* the reader that holds rmu, or None
  rd,          \* rd[r] : the phase, buffer and missing bytes of reader r
  mem,         \* mem[b] : the contents of buffer b
  pool,        \* buffers that nobody uses
  tasks,       \* buffers of the requests that are worked on
  handled      \* handled[m] : how often m was acted on; None stands for what nobody sent

vars == <<todo, wmu, left, stream, crashed, rmu, rd, mem, pool, tasks, handled>>

MT_Data == 101
MT_KeepAlive == 102
MT_FindAddr == 103
MT_PublicKey == 104
AddrLen == 2
ReqIDLen == 1
MaxMessageLen == 1 + AddrLen + MTU
MaxFrameLen == MaxMessageLen + 4
MinDataMsgLen == 1 + AddrLen
MinAskMsgLen == 1 + ReqIDLen

----------------------------------------------------------------------------
(* Messages.                                                                *)

Message ==
  [type : {MT_Data}, addr : {a \in Seq(Nat) : Len(a) = AddrLen}, data : Seq(Nat)]
    \cup [type : {MT_KeepAlive}]
    \cup [type : {MT_FindAddr, MT_PublicKey}, id : Nat, body : Nat]

\* What is sent is a message, and a nil pointer is neither message nor reader.
WellFormed == Msg \subseteq Message /\ None \notin Msg \cup Reader

\* Each is put together in a buffer of MaxMessageLen bytes, or MaxFrameLen.
WriteDataMessage(addr, data) == <<MT_Data>> \o addr \o data
WriteKeepAlive == <<MT_KeepAlive>>
WriteAskMessage(id, type, body) == <<type, id, body>>

Encode(m) ==
  CASE m.type = MT_Data -> WriteDataMessage(m.addr, m.data)
    [] m.type = MT_KeepAlive -> WriteKeepAlive
    [] OTHER -> WriteAskMessage(m.id, m.type, m.body)

IsTell(x) == x[1] \in {MT_Data, MT_KeepAlive}

AsMessage(x) ==
  /\ Len(x) >= 1
  /\ \/ x[1] = MT_Data /\ Len(x) >= MinDataMsgLen
     \/ x[1] \in {MT_FindAddr, MT_PublicKey} /\ Len(x) >= MinAskMsgLen
     \/ x[1] = MT_KeepAlive

DataMsg(x) == [type |-> MT_Data, addr |-> SubSeq(x, 2, 1 + AddrLen), data |-> SubSeq(x, 2 + AddrLen, Len(x))]
Decode(x) ==
  CASE ~AsMessage(x) -> None
    [] x[1] = MT_Data -> DataMsg(x)
    [] x[1] = MT_KeepAlive -> [type |-> MT_KeepAlive]
    [] OTHER -> [type |-> x[1], id |-> x[2], body |-> x[3]]

----------------------------------------------------------------------------
Idle == [phase |-> "idle", buf |-> None, missing |-> 0]

Init ==
  /\ todo = Msg
  /\ wmu = None /\ left = <<>>
  /\ stream = <<>>
  /\ crashed = FALSE
  /\ rmu = None
  /\ rd = [r \in Reader |-> Idle]
  /\ mem = [b \in Buf |-> <<>>]
  /\ pool = Buf
  /\ tasks = {}
  /\ handled = [m \in Msg \cup {None} |-> 0]

\* The slice of the buffer that is to hold the message panics when the message
\* does not fit.  A buffer of the server's pool is large enough for a frame, and
\* Send gives an error for the message it holds.  Otherwise the writer gets wmu and
\* writes the length.
SendBegin(m) ==
  /\ m \in todo /\ ~crashed
  /\ todo' = todo \ {m}
  /\ IF Len(Encode(m)) > MaxMessageLen
     THEN crashed' \in {TRUE, Len(Encode(m)) > MaxFrameLen} /\ UNCHANGED <<wmu, left, stream>>
     ELSE /\ wmu = None
          /\ wmu' = m
          /\ left' = Encode(m)
          /\ stream' = Append(stream, Len(Encode(m)))
          /\ UNCHANGED crashed
  /\ UNCHANGED <<rmu, rd, mem, pool, tasks, handled>>

\* The writer gives wmu back with its last byte.
SendByte ==
  /\ left # <<>> /\ ~crashed
  /\ stream' = Append(stream, Head(left))
  /\ left' = Tail(left)
  /\ wmu' = IF Len(left) = 1 THEN None ELSE wmu
  /\ UNCHANGED <<todo, crashed, rmu, rd, mem, pool, tasks, handled>>

\* Receive takes a buffer, then rmu.
Acquire(r) ==
  /\ rd[r].phase = "idle" /\ ~crashed
  /\ \E b \in pool :
       /\ pool' = pool \ {b}
       /\ rd' = [rd EXCEPT ![r] = [phase |-> "lock", buf |-> b, missing |-> 0]]
  /\ UNCHANGED <<todo, wmu, left, stream, crashed, rmu, mem, tasks, handled>>

\* A length above the maximum is an error, which ends the read loop; a stream
\* of whole frames never has one.
ReadLen(r) ==
  /\ rd[r].phase = "lock" /\ rmu = None /\ stream # <<>> /\ ~crashed
  /\ Head(stream) <= MaxMessageLen
  /\ rmu' = r
  /\ stream' = Tail(stream)
  /\ mem' = [mem EXCEPT ![rd[r].buf] = <<>>]
  /\ rd' = [rd EXCEPT ![r].phase = "read", ![r].missing = Head(stream)]
  /\ UNCHANGED <<todo, wmu, left, crashed, pool, tasks, handled>>

ReadByte(r) ==
  /\ rd[r].phase = "read" /\ stream # <<>> /\ ~crashed
  /\ stream' = Tail(stream)
  /\ mem' = [mem EXCEPT ![rd[r].buf] = Append(@, Head(stream))]
  /\ rd' = [rd EXCEPT ![r].phase = IF rd[r].missing = 1 THEN "handle" ELSE "read",
                      ![r].missing = @ - 1]
  /\ rmu' = IF rd[r].missing = 1 THEN None ELSE rmu
  /\ UNCHANGED <<todo, wmu, left, crashed, pool, tasks, handled>>

\* What a reader or a goroutine makes of the bytes x is acted on.
Acted(x) == [handled EXCEPT ![IF Decode(x) \in Msg THEN Decode(x) ELSE None] = @ + 1]

\* Variant: the goroutine of a request works on the reader's buffer.
HandleAliased(r) ==
  LET x == mem[rd[r].buf] IN
  /\ rd[r].phase = "handle" /\ ~crashed
  /\ rd' = [rd EXCEPT ![r] = Idle]
  /\ IF ~AsMessage(x) \/ IsTell(x)
     THEN handled' = (IF AsMessage(x) THEN Acted(x) ELSE handled) /\ UNCHANGED tasks
     ELSE tasks' = tasks \cup {rd[r].buf} /\ UNCHANGED handled
  /\ pool' = pool \cup {rd[r].buf}
  /\ UNCHANGED <<todo, wmu, left, stream, crashed, rmu, mem>>

\* The callback of Receive, after which the buffer goes back to the pool.  A
\* request is copied to a buffer of its own for the goroutine.
Handle(r) ==
  LET x == mem[rd[r].buf] IN
  /\ rd[r].phase = "handle" /\ ~crashed
  /\ rd' = [rd EXCEPT ![r] = Idle]
  /\ \/ /\ AsMessage(x) => IsTell(x)
        /\ handled' = IF AsMessage(x) THEN Acted(x) ELSE handled
        /\ pool' = pool \cup {rd[r].buf}
        /\ UNCHANGED <<mem, tasks>>
     \/ /\ AsMessage(x) /\ ~IsTell(x)
        /\ \E b \in pool :
             /\ mem' = [mem EXCEPT ![b] = x]
             /\ tasks' = tasks \cup {b}
             /\ pool' = (pool \ {b}) \cup {rd[r].buf}
        /\ UNCHANGED handled
  /\ UNCHANGED <<todo, wmu, left, stream, crashed, rmu>>

\* The goroutine of a request reads its message and releases the buffer.
Work(b) ==
  /\ b \in tasks /\ ~crashed
  /\ handled' = Acted(mem[b])
  /\ tasks' = tasks \ {b}
  /\ pool' = pool \cup {b}
  /\ UNCHANGED <<todo, wmu, left, stream, crashed, rmu, rd, mem>>

Next ==
  \/ \E m \in Msg : SendBegin(m)
  \/ SendByte
  \/ \E r \in Reader : Acquire(r) \/ ReadLen(r) \/ ReadByte(r) \/ Handle(r)
  \/ \E b \in Buf : Work(b)

Spec == Init /\ [][Next]_vars

----------------------------------------------------------------------------
(* Properties.                                                              *)

\* Buffers and locks are used as the pool and the mutexes intend: a buffer is
\* with one owner, the lock wmu with a writer that still writes.
TypeOK ==
  /\ todo \in SUBSET Msg
  /\ (wmu = None) = (left = <<>>)
  /\ rmu \in Reader \cup {None}
  /\ \A r \in Reader : (rmu = r) = (rd[r].phase = "read")
  /\ pool \cap tasks = {}
  /\ \A r \in Reader : rd[r].buf \notin pool \cup tasks
  /\ \A b \in Buf : Len(mem[b]) <= MaxMessageLen

\* What is acted on is what was sent: each message as it was, and once, whatever
\* the interleaving of writers, readers and goroutines and the reuse of buffers.
Intact ==
  /\ handled[None] = 0
  /\ \A m \in Msg : handled[m] <= (IF m \in todo THEN 0 ELSE 1)

============================================================================
