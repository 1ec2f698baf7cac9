------------------------- MODULE WireProtocolProofs -------------------------
(***************************************************************************)
(* Proofs about WireProtocol: the bytes keep their types whatever the      *)
(* clients do, nobody meets a short read, and the calls are performed and  *)
(* answered as RemoteCalls says.                                           *)
(*                                                                         *)
(* The argument: unless a client has read or written through -1, the       *)
(* server's pipe is the concatenation of whole messages, behind what main  *)
(* has read of the first (Stream, Reading); each message is the call its   *)
(* client waits in, or an unmount (Queued); a call is in the stream, with  *)
(* its worker (Posted) or answered, and then its answer is what the client *)
(* has read and what is in its pipe (Answered). A slot is a client's until *)
(* its worker has the unmount (Serves); no two workers have calls of one   *)
(* client (Single), and a free slot has no client and no request (Free).   *)
(***************************************************************************)
EXTENDS WireFieldLemmas

(***************************************************************************)
(* Messages.                                                               *)
(***************************************************************************)
\* The calls the library makes for client c.
CallType(c, r) ==
    \/ r = [NoRequest EXCEPT !.op = "MOUNT", !.name = <<c>>]
    \/ r = [NoRequest EXCEPT !.op = "UNMOUNT"]
    \/ \E n \in Name, f \in Flags : r = [NoRequest EXCEPT !.op = "OPEN", !.name = <<n>>, !.flags = f]
    \/ \E h \in Handle \cup {-1} : r = [NoRequest EXCEPT !.op = "CLOSE", !.fhandle = h]
    \/ \E h \in Handle \cup {-1}, t \in Texts :
          r = [NoRequest EXCEPT !.op = "WRITE", !.fhandle = h, !.len = Len(t), !.to_write = t]
    \/ \E h \in Handle \cup {-1}, n \in ReadLens :
          r = [NoRequest EXCEPT !.op = "READ", !.fhandle = h, !.len = n]

\* A message: the call r of client c on session sid.
Requests == [op : Ops, fhandle : Handle \cup {-1}, len : Nat, name : Seq(Byte), flags : Int, to_write : Seq(Byte)]
Messages == [c : Clients, sid : Nat, r : Requests]

\* How often main calls slait for a message, and the bytes of each call.
Parts(o) == CASE o = "CLOSE" -> 2 [] o = "READ" -> 3 [] o = "WRITE" -> 4 [] OTHER -> 1

Part(m, k) ==
    CASE k = 1 -> (CASE m.r.op = "MOUNT" -> NameField(m.c)
                     [] m.r.op = "OPEN"  -> Field(m.sid) \o (NameField(m.r.name[1]) \o <<m.r.flags>>)
                     [] OTHER            -> Field(m.sid))
      [] k = 2 /\ m.r.op \in {"CLOSE", "READ", "WRITE"} -> Field(m.r.fhandle)
      [] k = 3 /\ m.r.op \in {"READ", "WRITE"} -> Field(m.r.len)
      [] k = 4 /\ m.r.op = "WRITE" -> m.r.to_write
      [] OTHER -> <<>>

\* What is left of a message when main has read k parts.
Rest(m, k) ==
    CASE k = 0 -> Part(m, 1) \o (Part(m, 2) \o (Part(m, 3) \o Part(m, 4)))
      [] k = 1 -> Part(m, 2) \o (Part(m, 3) \o Part(m, 4))
      [] k = 2 -> Part(m, 3) \o Part(m, 4)
      [] k = 3 -> Part(m, 4)
      [] OTHER -> <<>>

Bits(m) == <<OpCode[m.r.op]>> \o Rest(m, 0)

\* The bytes b are the messages q, one after the other.
Stream(b, q) ==
    \E tail \in [0 .. Len(q) -> Seq(Byte)] :
        /\ tail[0] = b /\ tail[Len(q)] = <<>>
        /\ \A k \in 1 .. Len(q) : tail[k - 1] = Bits(q[k]) \o tail[k]

(***************************************************************************)
(* Facts about messages.                                                   *)
(***************************************************************************)
\* What a call's record holds.
LEMMA CallFields ==
    ASSUME NEW c \in Clients, NEW r, CallType(c, r)
    PROVE  /\ DOMAIN r = DOMAIN NoRequest /\ r.op \in Ops
           /\ r.fhandle \in Handle \cup {-1} /\ r.len \in Nat
           /\ r.op = "MOUNT" => r = [NoRequest EXCEPT !.op = "MOUNT", !.name = <<c>>]
           /\ r.op = "UNMOUNT" => r = [NoRequest EXCEPT !.op = "UNMOUNT"]
           /\ r.op = "OPEN" => /\ r.name = <<r.name[1]>> /\ r.name[1] \in Name /\ r.flags \in Flags
                              /\ r = [NoRequest EXCEPT !.op = "OPEN", !.name = r.name, !.flags = r.flags]
           /\ r.op = "CLOSE" => r = [NoRequest EXCEPT !.op = "CLOSE", !.fhandle = r.fhandle]
           /\ r.op = "WRITE" => /\ r.to_write \in Texts /\ r.len = Len(r.to_write)
                               /\ r = [NoRequest EXCEPT !.op = "WRITE", !.fhandle = r.fhandle, !.len = r.len,
                                                        !.to_write = r.to_write]
           /\ r.op = "READ" => r = [NoRequest EXCEPT !.op = "READ", !.fhandle = r.fhandle, !.len = r.len]
<1>1. Ops = {"MOUNT", "UNMOUNT", "OPEN", "CLOSE", "WRITE", "READ"}
    BY DEF Ops, OpCode
<1>2. CASE r = [NoRequest EXCEPT !.op = "MOUNT", !.name = <<c>>]
    BY <1>1, <1>2 DEF NoRequest
<1>3. CASE r = [NoRequest EXCEPT !.op = "UNMOUNT"]
    BY <1>1, <1>3 DEF NoRequest
<1>4. CASE \E n \in Name, f \in Flags : r = [NoRequest EXCEPT !.op = "OPEN", !.name = <<n>>, !.flags = f]
    <2>1. PICK n \in Name, f \in Flags : r = [NoRequest EXCEPT !.op = "OPEN", !.name = <<n>>, !.flags = f]
        BY <1>4
    <2>2. PICK w : w = <<n>>
        OBVIOUS
    <2>3. r = [NoRequest EXCEPT !.op = "OPEN", !.name = w, !.flags = f]
        BY <2>1, <2>2
    <2>4. r.op = "OPEN" /\ r.name = w /\ r.flags = f /\ DOMAIN r = DOMAIN NoRequest /\ r.fhandle = -1 /\ r.len = 0
        BY <2>3 DEF NoRequest
    <2>5. r.op \in Ops /\ r.fhandle \in Handle \cup {-1} /\ r.len \in Nat
        BY <1>1, <2>4
    <2>6. r.op = "OPEN" /\ r.op # "MOUNT" /\ r.op # "UNMOUNT" /\ r.op # "CLOSE" /\ r.op # "WRITE" /\ r.op # "READ"
        BY <2>4
    <2>7. w[1] = n
        BY <2>2
    <2> QED
        BY <2>2, <2>3, <2>4, <2>5, <2>6, <2>7, Zenon
<1>5. CASE \E h \in Handle \cup {-1} : r = [NoRequest EXCEPT !.op = "CLOSE", !.fhandle = h]
    BY <1>1, <1>5 DEF NoRequest
<1>6. CASE \E h \in Handle \cup {-1}, t \in Texts :
              r = [NoRequest EXCEPT !.op = "WRITE", !.fhandle = h, !.len = Len(t), !.to_write = t]
    <2>1. PICK h \in Handle \cup {-1}, t \in Texts :
              r = [NoRequest EXCEPT !.op = "WRITE", !.fhandle = h, !.len = Len(t), !.to_write = t]
        BY <1>6
    <2>2. PICK n \in Nat : n = Len(t)
        BY WriteLength
    <2>3. r = [NoRequest EXCEPT !.op = "WRITE", !.fhandle = h, !.len = n, !.to_write = t]
        BY <2>1, <2>2
    <2>4. r.op = "WRITE" /\ r.fhandle = h /\ r.len = n /\ r.to_write = t /\ DOMAIN r = DOMAIN NoRequest
        BY <2>3 DEF NoRequest
    <2>5. r.op \in Ops /\ r.op # "MOUNT" /\ r.op # "UNMOUNT" /\ r.op # "OPEN" /\ r.op # "CLOSE" /\ r.op # "READ"
        BY <1>1, <2>4
    <2> QED
        BY <2>2, <2>3, <2>4, <2>5, Zenon
<1>7. CASE \E h \in Handle \cup {-1}, n \in ReadLens :
              r = [NoRequest EXCEPT !.op = "READ", !.fhandle = h, !.len = n]
    BY <1>1, <1>7, LenAssumption DEF NoRequest
<1> QED
    BY <1>2, <1>3, <1>4, <1>5, <1>6, <1>7 DEF CallType

\* The text of a write.
LEMMA TextType ==
    ASSUME NEW t \in Texts
    PROVE  t \in Seq(Byte) /\ Len(t) \in Nat
BY TextAssumption, LenProperties

\* The calls as a set.
LEMMA CallRequest ==
    ASSUME NEW c \in Clients, NEW r, CallType(c, r)
    PROVE  r \in Requests
<1>1. Ops = {"MOUNT", "UNMOUNT", "OPEN", "CLOSE", "WRITE", "READ"}
    BY DEF Ops, OpCode
<1>2. <<>> \in Seq(Byte) /\ \A b \in Clients \cup Name : <<b>> \in Seq(Byte)
    BY EmptySeq, ByteType DEF Letter
<1>3. \A t \in Texts : t \in Seq(Byte) /\ Len(t) \in Nat
    BY TextType
<1>4. NoRequest = [op |-> "none", fhandle |-> -1, len |-> 0, name |-> <<>>, flags |-> 0, to_write |-> <<>>]
    BY DEF NoRequest
<1>5. CASE r = [NoRequest EXCEPT !.op = "MOUNT", !.name = <<c>>]
    <2>1. PICK w \in Seq(Byte) : w = <<c>>
        BY <1>2
    <2>2. r = [op |-> "MOUNT", fhandle |-> -1, len |-> 0, name |-> w, flags |-> 0, to_write |-> <<>>]
        BY <1>4, <1>5, <2>1
    <2> QED
        BY <1>1, <1>2, <2>2 DEF Requests
<1>6. CASE r = [NoRequest EXCEPT !.op = "UNMOUNT"]
    <2>1. r = [op |-> "UNMOUNT", fhandle |-> -1, len |-> 0, name |-> <<>>, flags |-> 0, to_write |-> <<>>]
        BY <1>4, <1>6
    <2> QED
        BY <1>1, <1>2, <2>1 DEF Requests
<1>7. CASE \E n \in Name, f \in Flags : r = [NoRequest EXCEPT !.op = "OPEN", !.name = <<n>>, !.flags = f]
    <2>1. PICK n \in Name, f \in Flags : r = [NoRequest EXCEPT !.op = "OPEN", !.name = <<n>>, !.flags = f]
        BY <1>7
    <2>2. PICK w \in Seq(Byte) : w = <<n>>
        BY <1>2
    <2>3. r = [op |-> "OPEN", fhandle |-> -1, len |-> 0, name |-> w, flags |-> f, to_write |-> <<>>]
        BY <1>4, <2>1, <2>2
    <2>4. f \in Int
        BY FlagsAssumption
    <2> QED
        BY <1>1, <1>2, <2>3, <2>4 DEF Requests
<1>8. CASE \E h \in Handle \cup {-1} : r = [NoRequest EXCEPT !.op = "CLOSE", !.fhandle = h]
    <2>1. PICK h \in Handle \cup {-1} : r = [NoRequest EXCEPT !.op = "CLOSE", !.fhandle = h]
        BY <1>8
    <2>2. r = [op |-> "CLOSE", fhandle |-> h, len |-> 0, name |-> <<>>, flags |-> 0, to_write |-> <<>>]
        BY <1>4, <2>1
    <2> QED
        BY <1>1, <1>2, <2>2 DEF Requests
<1>9. CASE \E h \in Handle \cup {-1}, t \in Texts :
              r = [NoRequest EXCEPT !.op = "WRITE", !.fhandle = h, !.len = Len(t), !.to_write = t]
    <2>1. PICK h \in Handle \cup {-1}, t \in Texts :
              r = [NoRequest EXCEPT !.op = "WRITE", !.fhandle = h, !.len = Len(t), !.to_write = t]
        BY <1>9
    <2>2. PICK n \in Nat : n = Len(t) /\ t \in Seq(Byte)
        BY <1>3
    <2>3. r = [op |-> "WRITE", fhandle |-> h, len |-> n, name |-> <<>>, flags |-> 0, to_write |-> t]
        BY <1>4, <2>1, <2>2
    <2> QED
        BY <1>1, <1>2, <2>2, <2>3 DEF Requests
<1>10. CASE \E h \in Handle \cup {-1}, n \in ReadLens :
              r = [NoRequest EXCEPT !.op = "READ", !.fhandle = h, !.len = n]
    <2>1. PICK h \in Handle \cup {-1}, n \in ReadLens :
              r = [NoRequest EXCEPT !.op = "READ", !.fhandle = h, !.len = n]
        BY <1>10
    <2>2. n \in Nat
        BY LenAssumption
    <2>3. r = [op |-> "READ", fhandle |-> h, len |-> n, name |-> <<>>, flags |-> 0, to_write |-> <<>>]
        BY <1>4, <2>1
    <2> QED
        BY <1>1, <1>2, <2>2, <2>3 DEF Requests
<1> QED
    BY <1>5, <1>6, <1>7, <1>8, <1>9, <1>10 DEF CallType

\* Bytes of three parts.
LEMMA Regroup == \A r, s, t \in Seq(Byte) : r \o (s \o t) = (r \o s) \o t
    BY ConcatAssociative

\* Bytes of two parts.
LEMMA SplitBytes ==
    \A s, t \in Seq(Byte) :
        /\ s \o t \in Seq(Byte) /\ Len(s \o t) = Len(s) + Len(t)
        /\ SubSeq(s \o t, 1, Len(s)) = s /\ SubSeq(s \o t, Len(s) + 1, Len(s \o t)) = t
    BY SplitConcat

\* A byte.
LEMMA OneByte ==
    ASSUME NEW b \in 0 .. 9
    PROVE  <<b>> \in Seq(Byte) /\ Len(<<b>>) = 1
BY ByteType DEF MINUS

\* The bytes of a part.
LEMMA PartType ==
    ASSUME NEW m, m.c \in Clients, m.sid \in Nat, CallType(m.c, m.r), NEW k \in 1 .. 4
    PROVE  Part(m, k) \in Seq(Byte)
<1> DEFINE r == m.r
<1>1. /\ r.op \in Ops /\ r.fhandle \in Handle \cup {-1} /\ r.len \in Nat
      /\ r.op = "OPEN" => r.name[1] \in Name /\ r.flags \in Flags
      /\ r.op = "WRITE" => r.to_write \in Texts
    <2>1. CallType(m.c, r)
        OBVIOUS
    <2> HIDE DEF r
    <2>2. r.op \in Ops /\ r.fhandle \in Handle \cup {-1} /\ r.len \in Nat
        BY <2>1, CallFields, Zenon
    <2>3. r.op = "OPEN" => r.name[1] \in Name /\ r.flags \in Flags
        BY <2>1, CallFields, Zenon
    <2>4. r.op = "WRITE" => r.to_write \in Texts
        BY <2>1, CallFields, Zenon
    <2> QED
        BY <2>2, <2>3, <2>4
<1>2. Field(m.sid) \in Seq(Byte)
    BY FieldType
<1>3. <<>> \in Seq(Byte)
    BY EmptySeq
<1>4. CASE k = 1
    <2>1. CASE r.op = "MOUNT"
        <3>1. Part(m, k) = NameField(m.c)
            BY <1>4, <2>1 DEF Part
        <3> QED
            BY <3>1, NameFieldType DEF Letter
    <2>2. CASE r.op = "OPEN"
        <3>1. PICK n \in Name, f \in Flags : r.name[1] = n /\ r.flags = f
            BY <1>1, <2>2
        <3>2. NameField(n) \in Seq(Byte)
            BY NameFieldType DEF Letter
        <3>3. <<f>> \in Seq(Byte)
            BY OneByte, FlagsAssumption
        <3>4. NameField(n) \o <<f>> \in Seq(Byte)
            BY <3>2, <3>3, ConcatProperties
        <3>5. Field(m.sid) \o (NameField(n) \o <<f>>) \in Seq(Byte)
            BY <1>2, <3>4, ConcatProperties
        <3>6. Part(m, k) = Field(m.sid) \o (NameField(n) \o <<f>>)
            BY <1>4, <2>2, <3>1 DEF Part
        <3> QED
            BY <3>5, <3>6
    <2>3. CASE r.op # "MOUNT" /\ r.op # "OPEN"
        BY <1>2, <1>4, <2>3 DEF Part
    <2> QED
        BY <2>1, <2>2, <2>3
<1>5. CASE k # 1
    <2>1. Handle \cup {-1} \subseteq Nat \cup {-1}
        BY HandleAssumption
    <2>2. Field(r.fhandle) \in Seq(Byte)
        BY <1>1, <2>1, FieldType
    <2>3. Field(r.len) \in Seq(Byte)
        BY <1>1, FieldType
    <2>4. r.op = "WRITE" => r.to_write \in Seq(Byte)
        BY <1>1, TextType
    <2>5. \/ Part(m, k) = Field(r.fhandle) \/ Part(m, k) = Field(r.len) \/ Part(m, k) = <<>>
          \/ Part(m, k) = r.to_write /\ r.op = "WRITE"
        BY <1>5 DEF Part
    <2> QED
        BY <1>3, <2>2, <2>3, <2>4, <2>5
<1> QED
    BY <1>4, <1>5

\* A message as main reads it: one part after the other.
LEMMA RestStep ==
    ASSUME NEW m, m.c \in Clients, m.sid \in Nat, CallType(m.c, m.r)
    PROVE  /\ \A k \in 0 .. 4 : Rest(m, k) \in Seq(Byte)
           /\ \A k \in 0 .. 3 : Rest(m, k) = Part(m, k + 1) \o Rest(m, k + 1)
           /\ Rest(m, Parts(m.r.op)) = <<>>
<1>1. \A k \in 1 .. 4 : Part(m, k) \in Seq(Byte)
    BY PartType
<1>2. <<>> \in Seq(Byte)
    BY EmptySeq
<1>3. Rest(m, 4) = <<>>
    BY DEF Rest
<1>4. Rest(m, 3) = Part(m, 4) /\ Rest(m, 2) = Part(m, 3) \o Rest(m, 3)
      /\ Rest(m, 1) = Part(m, 2) \o Rest(m, 2) /\ Rest(m, 0) = Part(m, 1) \o Rest(m, 1)
    <2>1. 3 # 0 /\ 3 # 1 /\ 3 # 2 /\ 2 # 0 /\ 2 # 1 /\ 1 # 0
        OBVIOUS
    <2>2. Rest(m, 3) = Part(m, 4)
        BY <2>1, Zenon DEF Rest
    <2>3. Rest(m, 2) = Part(m, 3) \o Part(m, 4)
        BY <2>1, Zenon DEF Rest
    <2>4. Rest(m, 1) = Part(m, 2) \o (Part(m, 3) \o Part(m, 4))
        BY <2>1, Zenon DEF Rest
    <2>5. Rest(m, 0) = Part(m, 1) \o (Part(m, 2) \o (Part(m, 3) \o Part(m, 4)))
        BY <2>1, Zenon DEF Rest
    <2> QED
        BY <2>2, <2>3, <2>4, <2>5, Zenon
<1>5. Rest(m, 3) \in Seq(Byte)
    BY <1>1, <1>4
<1>6. \A s, t \in Seq(Byte) : s \o t \in Seq(Byte)
    BY ConcatProperties
<1>7. 1 \in 1 .. 4 /\ 2 \in 1 .. 4 /\ 3 \in 1 .. 4 /\ 4 \in 1 .. 4
    OBVIOUS
<1>8. Rest(m, 2) \in Seq(Byte)
    BY <1>1, <1>4, <1>5, <1>6, <1>7, Zenon
<1>9. Rest(m, 1) \in Seq(Byte)
    BY <1>1, <1>4, <1>8, <1>6, <1>7, Zenon
<1>10. Rest(m, 0) \in Seq(Byte)
    BY <1>1, <1>4, <1>9, <1>6, <1>7, Zenon
<1>11. Rest(m, 3) = Part(m, 4) \o Rest(m, 4)
    BY <1>1, <1>3, <1>4, ConcatEmptySeq
<1>12. /\ m.r.op \notin {"CLOSE", "READ", "WRITE"} => Part(m, 2) = <<>>
       /\ m.r.op \notin {"READ", "WRITE"} => Part(m, 3) = <<>>
       /\ m.r.op # "WRITE" => Part(m, 4) = <<>>
    BY DEF Part
<1>13. <<>> \o <<>> = <<>>
    BY <1>2, ConcatEmptySeq
<1>14. /\ m.r.op # "WRITE" => Rest(m, 3) = <<>>
       /\ m.r.op \notin {"READ", "WRITE"} => Rest(m, 2) = <<>>
       /\ m.r.op \notin {"CLOSE", "READ", "WRITE"} => Rest(m, 1) = <<>>
    BY <1>4, <1>12, <1>13, Zenon
<1>15. Rest(m, Parts(m.r.op)) = <<>>
    <2>1. CASE m.r.op = "CLOSE"
        BY <1>14, <2>1 DEF Parts
    <2>2. CASE m.r.op = "READ"
        BY <1>14, <2>2 DEF Parts
    <2>3. CASE m.r.op = "WRITE"
        BY <1>3, <2>3 DEF Parts
    <2>4. CASE m.r.op \notin {"CLOSE", "READ", "WRITE"}
        BY <1>14, <2>4 DEF Parts
    <2> QED
        BY <2>1, <2>2, <2>3, <2>4
<1>16. \A k \in 0 .. 4 : k = 0 \/ k = 1 \/ k = 2 \/ k = 3 \/ k = 4
    OBVIOUS
<1>17. \A k \in 0 .. 3 : k = 0 \/ k = 1 \/ k = 2 \/ k = 3
    OBVIOUS
<1>18. \A k \in 0 .. 3 : Rest(m, k) = Part(m, k + 1) \o Rest(m, k + 1)
    <2>1. 0 + 1 = 1 /\ 1 + 1 = 2 /\ 2 + 1 = 3 /\ 3 + 1 = 4
        OBVIOUS
    <2> QED
        BY <1>4, <1>11, <1>17, <2>1, Zenon
<1>19. \A k \in 0 .. 4 : Rest(m, k) \in Seq(Byte)
    BY <1>2, <1>3, <1>5, <1>8, <1>9, <1>10, <1>16, Zenon
<1> QED
    BY <1>15, <1>18, <1>19, Zenon

\* All bytes of a message.
LEMMA BitsType ==
    ASSUME NEW m, m.c \in Clients, m.sid \in Nat, CallType(m.c, m.r)
    PROVE  Bits(m) \in Seq(Byte) /\ Bits(m) # <<>>
<1>1. OpCode[m.r.op] \in 0 .. 9
    <2>1. m.r.op \in Ops
        BY CallFields
    <2>2. OpCode[m.r.op] \in 1 .. 6
        BY <2>1, OpOfCode
    <2> QED
        BY <2>2
<1>2. PICK s : s = <<OpCode[m.r.op]>>
    OBVIOUS
<1>3. s \in Seq(Byte) /\ Len(s) = 1
    BY <1>1, <1>2, OneByte
<1>4. Rest(m, 0) \in Seq(Byte)
    BY RestStep
<1>5. s \o Rest(m, 0) \in Seq(Byte)
    BY <1>3, <1>4, ConcatProperties
<1>6. s \o Rest(m, 0) # <<>>
    <2>1. s # <<>>
        BY <1>2, <1>3
    <2> QED
        BY <1>3, <1>4, <2>1, ConcatEqualIffEmpty
<1> QED
    BY <1>2, <1>5, <1>6 DEF Bits

\* The message is what the library writes for the call.
LEMMA BitsWritten ==
    ASSUME NEW m, m.c \in Clients, m.sid \in Nat, CallType(m.c, m.r)
    PROVE  /\ m.r.op = "MOUNT"   => Rest(m, 0) = NameField(m.c)
           /\ m.r.op = "UNMOUNT" => Rest(m, 0) = Field(m.sid)
           /\ m.r.op = "OPEN"    => Rest(m, 0) = Field(m.sid) \o (NameField(m.r.name[1]) \o <<m.r.flags>>)
           /\ m.r.op = "CLOSE"   => Rest(m, 0) = Field(m.sid) \o Field(m.r.fhandle)
           /\ m.r.op = "READ"    => Rest(m, 0) = Field(m.sid) \o (Field(m.r.fhandle) \o Field(m.r.len))
           /\ m.r.op = "WRITE"   => Rest(m, 0) = Field(m.sid) \o ((Field(m.r.fhandle) \o Field(m.r.len)) \o m.r.to_write)
<1>1. \A k \in 1 .. 4 : Part(m, k) \in Seq(Byte)
    BY PartType
<1>2. /\ \A k \in 0 .. 4 : Rest(m, k) \in Seq(Byte)
      /\ \A k \in 0 .. 3 : Rest(m, k) = Part(m, k + 1) \o Rest(m, k + 1)
      /\ Rest(m, Parts(m.r.op)) = <<>>
    BY RestStep
<1>3. \A k \in 1 .. 4 : Part(m, k) \o <<>> = Part(m, k)
    BY <1>1, ConcatEmptySeq
<1>4. Rest(m, 0) = Part(m, 1) \o Rest(m, 1) /\ Rest(m, 1) = Part(m, 2) \o Rest(m, 2)
      /\ Rest(m, 2) = Part(m, 3) \o Rest(m, 3) /\ Rest(m, 3) = Part(m, 4) \o Rest(m, 4)
    <2>1. /\ 0 \in 0 .. 3 /\ 1 \in 0 .. 3 /\ 2 \in 0 .. 3 /\ 3 \in 0 .. 3
          /\ 0 + 1 = 1 /\ 1 + 1 = 2 /\ 2 + 1 = 3 /\ 3 + 1 = 4
        OBVIOUS
    <2>2. \A k \in 0 .. 3 : Rest(m, k) = Part(m, k + 1) \o Rest(m, k + 1)
        BY <1>2
    <2>3. Rest(m, 0) = Part(m, 0 + 1) \o Rest(m, 0 + 1) /\ Rest(m, 1) = Part(m, 1 + 1) \o Rest(m, 1 + 1)
          /\ Rest(m, 2) = Part(m, 2 + 1) \o Rest(m, 2 + 1) /\ Rest(m, 3) = Part(m, 3 + 1) \o Rest(m, 3 + 1)
        BY <2>1, <2>2, Zenon
    <2> QED
        BY <2>1, <2>3, Zenon
<1>5. 1 \in 1 .. 4 /\ 2 \in 1 .. 4 /\ 3 \in 1 .. 4 /\ 4 \in 1 .. 4
    OBVIOUS
<1>6. ASSUME m.r.op \in {"MOUNT", "UNMOUNT", "OPEN"}
      PROVE  Rest(m, 0) = Part(m, 1)
    <2>1. Parts(m.r.op) = 1
        BY <1>6 DEF Parts
    <2> QED
        BY <1>2, <1>3, <1>4, <1>5, <2>1, Zenon
<1>7. CASE m.r.op = "MOUNT"
    <2>1. Part(m, 1) = NameField(m.c)
        BY <1>7 DEF Part
    <2> QED
        BY <1>6, <1>7, <2>1
<1>8. CASE m.r.op = "UNMOUNT"
    <2>1. Part(m, 1) = Field(m.sid)
        BY <1>8 DEF Part
    <2> QED
        BY <1>6, <1>8, <2>1
<1>9. CASE m.r.op = "OPEN"
    <2>1. Part(m, 1) = Field(m.sid) \o (NameField(m.r.name[1]) \o <<m.r.flags>>)
        BY <1>9 DEF Part
    <2> QED
        BY <1>6, <1>9, <2>1
<1>10. CASE m.r.op = "CLOSE"
    <2>1. Parts(m.r.op) = 2 /\ Part(m, 1) = Field(m.sid) /\ Part(m, 2) = Field(m.r.fhandle)
        BY <1>10 DEF Parts, Part
    <2> QED
        <3>1. Rest(m, 0) = Part(m, 1) \o Part(m, 2)
            BY <1>2, <1>3, <1>4, <1>5, <2>1, Zenon
        <3> QED
            BY <1>10, <2>1, <3>1
<1>11. CASE m.r.op = "READ"
    <2>1. Parts(m.r.op) = 3 /\ Part(m, 1) = Field(m.sid) /\ Part(m, 2) = Field(m.r.fhandle)
          /\ Part(m, 3) = Field(m.r.len)
        BY <1>11 DEF Parts, Part
    <2> QED
        <3>1. Rest(m, 0) = Part(m, 1) \o (Part(m, 2) \o Part(m, 3))
            BY <1>2, <1>3, <1>4, <1>5, <2>1, Zenon
        <3> QED
            BY <1>11, <2>1, <3>1
<1>12. CASE m.r.op = "WRITE"
    <2>1. Parts(m.r.op) = 4 /\ Part(m, 1) = Field(m.sid) /\ Part(m, 2) = Field(m.r.fhandle)
          /\ Part(m, 3) = Field(m.r.len) /\ Part(m, 4) = m.r.to_write
        BY <1>12 DEF Parts, Part
    <2>2. Rest(m, 0) = Part(m, 1) \o (Part(m, 2) \o (Part(m, 3) \o Part(m, 4)))
        BY <1>2, <1>3, <1>4, <1>5, <2>1, Zenon
    <2>3. Part(m, 2) \o (Part(m, 3) \o Part(m, 4)) = (Part(m, 2) \o Part(m, 3)) \o Part(m, 4)
        BY <1>1, <1>5, Regroup, Zenon
    <2> QED
        BY <1>12, <2>1, <2>2, <2>3
<1> QED
    BY <1>7, <1>8, <1>9, <1>10, <1>11, <1>12

(***************************************************************************)
(* Streams of messages.                                                    *)
(***************************************************************************)
\* The empty stream.
LEMMA StreamEmpty == Stream(<<>>, <<>>) /\ \A b : Stream(b, <<>>) => b = <<>>
<1>1. Len(<<>>) = 0
    OBVIOUS
<1>2. PICK f : f = [k \in 0 .. 0 |-> <<>>]
    OBVIOUS
<1>3. f \in [0 .. 0 -> Seq(Byte)] /\ f[0] = <<>>
    BY <1>2
<1>4. \A k \in 1 .. 0 : f[k - 1] = Bits(<<>>[k]) \o f[k]
    OBVIOUS
<1> QED
    BY <1>1, <1>3, <1>4 DEF Stream

\* A message is written.
LEMMA StreamAppend ==
    ASSUME NEW A, NEW q \in Seq(A), NEW m \in A, NEW b, Stream(b, q), Bits(m) \in Seq(Byte),
           \A k \in 1 .. Len(q) : Bits(q[k]) \in Seq(Byte)
    PROVE  Stream(b \o Bits(m), Append(q, m))
<1>1. PICK n \in Nat : n = Len(q)
    BY LenProperties
<1>2. PICK f \in [0 .. n -> Seq(Byte)] : f[0] = b /\ f[n] = <<>>
                                        /\ \A k \in 1 .. n : f[k - 1] = Bits(q[k]) \o f[k]
    BY <1>1 DEF Stream
<1>3. PICK p : p = Append(q, m)
    OBVIOUS
<1>4. Len(p) = n + 1 /\ p[n + 1] = m /\ \A k \in 1 .. n : p[k] = q[k]
    BY <1>1, <1>3, AppendProperties
<1>5. PICK g : g = [k \in 0 .. n + 1 |-> IF k <= n THEN f[k] \o Bits(m) ELSE <<>>]
    OBVIOUS
<1>6. /\ \A k \in 0 .. n : g[k] = f[k] \o Bits(m)
      /\ g[n + 1] = <<>>
      /\ g \in [0 .. n + 1 -> Seq(Byte)]
    <2>1. \A k \in 0 .. n : f[k] \o Bits(m) \in Seq(Byte)
        BY ConcatProperties
    <2> QED
        BY <1>5, <2>1, EmptySeq
<1>7. g[0] = b \o Bits(m)
    <2>1. 0 \in 0 .. n /\ n \in 0 .. n /\ n + 1 - 1 = n
        OBVIOUS
    <2> QED
        BY <1>2, <1>6, <2>1, Zenon
<1>8. ASSUME NEW k \in 1 .. n + 1
      PROVE  g[k - 1] = Bits(p[k]) \o g[k]
    <2>1. CASE k = n + 1
        <3>1. g[k - 1] = <<>> \o Bits(m)
            <4>1. n \in 0 .. n /\ k - 1 = n
                BY <2>1
            <4> QED
                BY <1>2, <1>6, <2>1, <4>1, Zenon
        <3>2. <<>> \o Bits(m) = Bits(m) /\ Bits(m) \o <<>> = Bits(m)
            BY ConcatEmptySeq
        <3> QED
            BY <1>4, <1>6, <2>1, <3>1, <3>2, Zenon
    <2>2. CASE k \in 1 .. n
        <3>1. k - 1 \in 0 .. n /\ k \in 0 .. n
            BY <2>2
        <3>2. g[k - 1] = (Bits(q[k]) \o f[k]) \o Bits(m) /\ g[k] = f[k] \o Bits(m)
            BY <1>2, <1>6, <2>2, <3>1, Zenon
        <3>3. Bits(q[k]) \in Seq(Byte) /\ f[k] \in Seq(Byte)
            BY <1>1, <2>2, <3>1
        <3>4. (Bits(q[k]) \o f[k]) \o Bits(m) = Bits(q[k]) \o (f[k] \o Bits(m))
            BY <3>3, Regroup, Zenon
        <3> QED
            BY <1>4, <2>2, <3>2, <3>4, Zenon
    <2>3. k = n + 1 \/ k \in 1 .. n
        OBVIOUS
    <2> QED
        BY <2>1, <2>2, <2>3, Zenon
<1>9. Stream(b \o Bits(m), p)
    <2>1. g \in [0 .. Len(p) -> Seq(Byte)] /\ g[Len(p)] = <<>> /\ \A k \in 1 .. Len(p) : g[k - 1] = Bits(p[k]) \o g[k]
        BY <1>4, <1>6, <1>8
    <2> QED
        BY <1>7, <2>1, Zenon DEF Stream
<1> QED
    BY <1>3, <1>9

\* The first message of a stream, and the stream behind it.
LEMMA StreamFirst ==
    ASSUME NEW A, NEW q \in Seq(A), q # <<>>, NEW b, Stream(b, q)
    PROVE  \E t \in Seq(Byte) : b = Bits(q[1]) \o t /\ Stream(t, Tail(q))
<1>1. PICK n \in Nat : n + 1 = Len(q)
    BY EmptySeq, LenProperties
<1>2. PICK f \in [0 .. n + 1 -> Seq(Byte)] : f[0] = b /\ f[n + 1] = <<>>
                                            /\ \A k \in 1 .. n + 1 : f[k - 1] = Bits(q[k]) \o f[k]
    BY <1>1 DEF Stream
<1>3. PICK p : p = Tail(q)
    OBVIOUS
<1>4. Len(p) = n /\ \A k \in 1 .. n : p[k] = q[k + 1]
    BY <1>1, <1>3, HeadTailProperties
<1>5. PICK g : g = [k \in 0 .. n |-> f[k + 1]]
    OBVIOUS
<1>6. g \in [0 .. n -> Seq(Byte)] /\ \A k \in 0 .. n : g[k] = f[k + 1]
    BY <1>5
<1>7. g[n] = <<>> /\ g[0] = f[1]
    BY <1>2, <1>6
<1>8. ASSUME NEW k \in 1 .. n
      PROVE  g[k - 1] = Bits(p[k]) \o g[k]
    <2>1. g[k - 1] = f[k] /\ g[k] = f[k + 1] /\ p[k] = q[k + 1]
        BY <1>4, <1>6
    <2>2. k + 1 \in 1 .. n + 1 /\ (k + 1) - 1 = k
        OBVIOUS
    <2>3. f[(k + 1) - 1] = Bits(q[k + 1]) \o f[k + 1]
        BY <1>2, <2>2
    <2> QED
        BY <2>1, <2>2, <2>3
<1>9. f[1] \in Seq(Byte) /\ b = Bits(q[1]) \o f[1]
    <2>1. 1 \in 1 .. n + 1 /\ 1 \in 0 .. n + 1 /\ 1 - 1 = 0
        OBVIOUS
    <2> QED
        BY <1>2, <2>1, Zenon
<1>10. Stream(f[1], p)
    <2>1. g \in [0 .. Len(p) -> Seq(Byte)] /\ g[Len(p)] = <<>> /\ \A k \in 1 .. Len(p) : g[k - 1] = Bits(p[k]) \o g[k]
        BY <1>4, <1>6, <1>7, <1>8
    <2> QED
        BY <1>7, <2>1, Zenon DEF Stream
<1> QED
    BY <1>3, <1>9, <1>10

(***************************************************************************)
(* What the handlers ask slait for.                                        *)
(***************************************************************************)
\* The bytes of the field that main reads next.
Asked ==
    IF op = "MOUNT" THEN NAME_SIZE
    ELSE IF op = "OPEN" THEN INT_SIZE + NAME_SIZE + 1
    ELSE IF op = "WRITE" /\ Len(fields) = 3 THEN Atoi(fields[3])
    ELSE INT_SIZE

\* The smaller of two numbers.
LEMMA MinPair ==
    ASSUME NEW a \in Int, NEW b \in Int
    PROVE  Min({a, b}) = IF a <= b THEN a ELSE b
<1>1. \E x \in {a, b} : \A y \in {a, b} : x =< y
    OBVIOUS
<1>2. Min({a, b}) \in {a, b} /\ \A y \in {a, b} : Min({a, b}) =< y
    BY <1>1 DEF Min
<1> QED
    BY <1>2

\* The slot of a new session.
LEMMA MinFree ==
    ASSUME free_sessions \subseteq Slots, free_sessions # {}
    PROVE  Min(free_sessions) \in free_sessions
<1>1. free_sessions \subseteq Nat
    BY SizeAssumption DEF Slots
<1>2. \E x \in free_sessions : \A y \in free_sessions : x =< y
    BY <1>1, LeastElement
<1> QED
    BY <1>2 DEF Min

\* The number of fields of a message, and the length of each.
LEMMA LayoutValues ==
    ASSUME op \in Ops, fields \in Seq(Seq(Byte)), Len(fields) <= Parts(op)
    PROVE  /\ Parsed <=> \/ Len(fields) = Parts(op)
                         \/ op = "WRITE" /\ Len(fields) = 3 /\ Atoi(fields[3]) <= 0
           /\ ~Parsed => Layout[Len(fields) + 1] = Asked /\ Asked \in Nat \ {0}
<1>1. op \in {"MOUNT", "UNMOUNT", "OPEN", "CLOSE", "WRITE", "READ"}
    BY DEF Ops, OpCode
<1>2. PICK l \in Nat : l = Len(fields)
    BY LenProperties
<1> SUFFICES /\ Parsed <=> l = Parts(op) \/ (op = "WRITE" /\ l = 3 /\ Atoi(fields[3]) <= 0)
             /\ ~Parsed => Layout[l + 1] = Asked /\ Asked \in Nat \ {0}
    BY <1>2, Zenon
<1>3. l <= Parts(op)
    BY <1>2
<1>4. INT_SIZE \in Nat \ {0} /\ NAME_SIZE \in Nat \ {0}
    BY SizeAssumption
<1>5. CASE op \in {"MOUNT", "UNMOUNT", "OPEN"}
    <2>1. Parts(op) = 1 /\ op # "WRITE"
        BY <1>5 DEF Parts
    <2>2. PICK x \in Nat \ {0} : Layout = <<x>> /\ x = Asked
        BY <1>4, <1>5 DEF Layout, Asked
    <2>3. Len(Layout) = 1 /\ Layout[1] = x
        BY <2>2
    <2>4. Parsed <=> l >= 1
        BY <1>2, <2>1, <2>3 DEF Parsed
    <2>5. l = 0 \/ l = 1
        BY <1>3, <2>1
    <2>6. l = 0 => Layout[l + 1] = x
        BY <2>3
    <2> QED
        BY <2>1, <2>2, <2>4, <2>5, <2>6
<1>6. CASE op = "CLOSE"
    <2>1. Parts(op) = 2 /\ op # "WRITE" /\ Asked = INT_SIZE
        BY <1>6 DEF Parts, Asked
    <2>2. Layout = <<INT_SIZE, INT_SIZE>>
        BY <1>6 DEF Layout
    <2>3. Len(Layout) = 2 /\ Layout[1] = INT_SIZE /\ Layout[2] = INT_SIZE
        BY <2>2
    <2>4. Parsed <=> l >= 2
        BY <1>2, <2>1, <2>3 DEF Parsed
    <2>5. l = 0 \/ l = 1 \/ l = 2
        BY <1>3, <2>1
    <2>6. l < 2 => Layout[l + 1] = INT_SIZE
        BY <2>3, <2>5
    <2> QED
        BY <1>4, <2>1, <2>4, <2>5, <2>6
<1>7. CASE op = "READ"
    <2>1. Parts(op) = 3 /\ op # "WRITE" /\ Asked = INT_SIZE
        BY <1>7 DEF Parts, Asked
    <2>2. Layout = <<INT_SIZE, INT_SIZE, INT_SIZE>>
        BY <1>7 DEF Layout
    <2>3. Len(Layout) = 3 /\ Layout[1] = INT_SIZE /\ Layout[2] = INT_SIZE /\ Layout[3] = INT_SIZE
        BY <2>2
    <2>4. Parsed <=> l >= 3
        BY <1>2, <2>1, <2>3 DEF Parsed
    <2>5. l = 0 \/ l = 1 \/ l = 2 \/ l = 3
        BY <1>3, <2>1
    <2>6. l < 3 => Layout[l + 1] = INT_SIZE
        BY <2>3, <2>5
    <2> QED
        BY <1>4, <2>1, <2>4, <2>5, <2>6
<1>8. CASE op = "WRITE"
    <2>1. Parts(op) = 4
        BY <1>8 DEF Parts
    <2>2. PICK s : s = <<INT_SIZE, INT_SIZE, INT_SIZE>>
        OBVIOUS
    <2>3. s \in Seq(Int) /\ Len(s) = 3 /\ s[1] = INT_SIZE /\ s[2] = INT_SIZE /\ s[3] = INT_SIZE
        BY <1>4, <2>2
    <2>4. Layout = s \o (IF Len(fields) < 3 THEN <<>> ELSE <<Atoi(fields[3])>>)
        BY <1>8, <2>2, Zenon DEF Layout
    <2>5. CASE l < 3
        <3>1. Layout = s
            BY <1>2, <2>3, <2>4, <2>5, ConcatEmptySeq
        <3>2. Len(Layout) = 3 /\ Layout[1] = INT_SIZE /\ Layout[2] = INT_SIZE /\ Layout[3] = INT_SIZE
            BY <2>3, <3>1
        <3>3. ~Parsed /\ Asked = INT_SIZE
            BY <1>2, <1>8, <2>5, <3>2 DEF Parsed, Asked
        <3>4. l = 0 \/ l = 1 \/ l = 2
            BY <2>5
        <3>5. Layout[l + 1] = INT_SIZE
            BY <3>2, <3>4
        <3> QED
            BY <1>4, <2>1, <2>5, <3>3, <3>4, <3>5
    <2>6. CASE l >= 3
        <3>1. fields[3] \in Seq(Byte)
            BY <1>2, <2>6, ElementOfSeq
        <3>2. PICK v \in Int : v = Atoi(fields[3])
            BY <3>1, AtoiType
        <3>3. PICK t : t = <<v>>
            OBVIOUS
        <3>4. t \in Seq(Int) /\ Len(t) = 1 /\ t[1] = v
            BY <3>3
        <3>5. ~(l < 3)
            BY <1>2, <2>6
        <3>6. Layout = s \o t
            BY <2>4, <1>2, <3>2, <3>3, <3>5, Zenon
        <3>7. Len(Layout) = 4 /\ Layout[4] = v
            <4>1. PICK u : u = s \o t
                OBVIOUS
            <4>2. Len(u) = Len(s) + Len(t)
                  /\ \A k \in 1 .. Len(s) + Len(t) : u[k] = IF k <= Len(s) THEN s[k] ELSE t[k - Len(s)]
                BY <2>3, <3>4, <4>1, ConcatProperties
            <4>3. Len(u) = 4 /\ u[4] = v
                BY <2>3, <3>4, <4>2
            <4> QED
                BY <3>6, <4>1, <4>3, Zenon
        <3>8. l = 3 \/ l = 4
            BY <1>3, <2>1, <2>6
        <3>9. Parsed <=> l = 4 \/ (l = 3 /\ v <= 0)
            BY <1>2, <1>8, <3>7, <3>8 DEF Parsed
        <3>10. l = 3 => Layout[l + 1] = v /\ Asked = v
            BY <1>2, <1>8, <3>2, <3>7 DEF Asked
        <3> QED
            BY <1>8, <2>1, <3>2, <3>8, <3>9, <3>10
    <2> QED
        BY <1>2, <2>5, <2>6
<1> QED
    BY <1>1, <1>5, <1>6, <1>7, <1>8

(***************************************************************************)
(* Types, whatever the clients do.                                         *)
(***************************************************************************)
\* The history, and the requests, are functions.
Shapes ==
    /\ call = [c \in Clients |-> call[c]] /\ done = [c \in Clients |-> done[c]]
    /\ answer = [c \in Clients |-> answer[c]] /\ returned = [c \in Clients |-> returned[c]]
    /\ request = [i \in Slots |-> request[i]]

\* main: complete fields have the length that was asked for, and it reads on only behind a
\* handle that is not -1.
MainType ==
    /\ op = "none" => fields = <<>> /\ buffer = <<>>
    /\ Len(fields) <= Parts(op)
    /\ op = "OPEN" /\ Len(fields) >= 1 => Len(fields[1]) >= INT_SIZE + NAME_SIZE + 1
    /\ op = "WRITE" /\ Len(fields) >= 4 => Len(fields[4]) >= Atoi(fields[3])
    /\ op \in {"CLOSE", "READ", "WRITE"} /\ Len(fields) >= 3 => Atoi(fields[2]) # -1
    /\ buffer # <<>> => op # "none" /\ ~Parsed /\ ~BadHandle

\* A client in a call has made one, on a session unless it is a mount; the count of a read
\* is there before the data.
ClientType(c) ==
    /\ cpc[c] \in {"answer", "data"} =>
          /\ call[c] = <<call[c][1]>> /\ CallType(c, call[c][1]) /\ call[c][1].op # "UNMOUNT"
          /\ call[c][1].op # "MOUNT" => session_id[c] \in Nat
    /\ cpc[c] = "data" => Len(got[c]) >= INT_SIZE /\ call[c][1].op = "READ"
    /\ cpc[c] = "in" => session_id[c] \in Nat

TInv == TypeOK /\ Shapes /\ MainType /\ \A c \in Clients : ClientType(c)

\* The library writes op code and fields as one message.
LEMMA BitsSent ==
    ASSUME NEW m, m.c \in Clients, m.sid \in Nat, CallType(m.c, m.r), NEW b \in Seq(Byte),
           NEW msg, msg = Rest(m, 0)
    PROVE  (b \o <<OpCode[m.r.op]>>) \o msg = b \o Bits(m)
<1>1. m.r.op \in Ops
    BY CallFields
<1>2. OpCode[m.r.op] \in 0 .. 9
    BY <1>1, OpOfCode
<1>3. <<OpCode[m.r.op]>> \in Seq(Byte)
    BY <1>2, OneByte
<1>4. Rest(m, 0) \in Seq(Byte)
    BY RestStep
<1>5. b \o (<<OpCode[m.r.op]>> \o Rest(m, 0)) = (b \o <<OpCode[m.r.op]>>) \o Rest(m, 0)
    BY <1>3, <1>4, Regroup, Zenon
<1> QED
    BY <1>5, Zenon DEF Bits

\* What a call changes: the message m is written.
Send(c, m) ==
    /\ m \in Messages /\ m.c = c /\ CallType(c, m.r)
    /\ server_pipe' = server_pipe \o Bits(m)
    /\ IF m.r.op = "MOUNT"
       THEN cpc[c] = "out" /\ m.sid = 0 /\ inbox' = [inbox EXCEPT ![c] = <<>>]
       ELSE cpc[c] = "in" /\ m.sid = session_id[c] /\ inbox' = inbox
    /\ IF m.r.op = "UNMOUNT"
       THEN cpc' = [cpc EXCEPT ![c] = "out"] /\ UNCHANGED <<calls, call, returned>>
       ELSE /\ calls > 0 /\ calls' = calls - 1
            /\ cpc' = [cpc EXCEPT ![c] = "answer"]
            /\ call' = [call EXCEPT ![c] = <<m.r>>]
            /\ returned' = [returned EXCEPT ![c] = <<>>]
    /\ UNCHANGED <<op, fields, buffer, fhandler, tableV, request, session_id, got, done, answer, spoilt>>

\* The bytes of a call on a session are those of a message.
LEMMA SendCall ==
    ASSUME NEW c \in Clients, NEW r, CallType(c, r), r.op # "MOUNT", r.op # "UNMOUNT",
           server_pipe \in Seq(Byte), session_id[c] \in Nat, cpc[c] = "in",
           NEW m, m = [c |-> c, sid |-> session_id[c], r |-> r],
           NEW msg, Rest(m, 0) = Field(session_id[c]) \o msg, OnSession(c, r, msg)
    PROVE  Send(c, m)
<1>1. m.c = c /\ m.sid = session_id[c] /\ m.r = r
    OBVIOUS
<1>2. Call(c, r, Field(session_id[c]) \o msg) /\ inbox' = inbox
    BY DEF OnSession
<1>3. server_pipe' = (server_pipe \o <<OpCode[m.r.op]>>) \o (Field(session_id[c]) \o msg)
    BY <1>1, <1>2, Zenon DEF Call
<1>4. server_pipe' = server_pipe \o Bits(m)
    BY <1>1, <1>3, BitsSent
<1>5. /\ calls > 0 /\ calls' = calls - 1
      /\ cpc' = [cpc EXCEPT ![c] = "answer"]
      /\ call' = [call EXCEPT ![c] = <<m.r>>]
      /\ returned' = [returned EXCEPT ![c] = <<>>]
      /\ UNCHANGED <<op, fields, buffer, fhandler, tableV, request, session_id, got, done, answer, spoilt>>
    BY <1>1, <1>2, Zenon DEF Call, mainV, historyV
<1> QED
    <2>1. m \in Messages
        BY CallRequest DEF Messages
    <2> QED
        BY <1>1, <1>2, <1>4, <1>5, <2>1, Zenon DEF Send

\* Each call of the library puts one message on the server's pipe.
LEMMA Sent ==
    ASSUME TInv, NEW c \in Clients, NewCall(c)
    PROVE  \E m : Send(c, m)
<1>1. server_pipe \in Seq(Byte) /\ (cpc[c] = "in" => session_id[c] \in Nat)
    BY DEF TInv, TypeOK, ClientType
<1>2. CASE Mount(c)
    <2>1. PICK r : r = [NoRequest EXCEPT !.op = "MOUNT", !.name = <<c>>]
        OBVIOUS
    <2>2. CallType(c, r)
        BY <2>1 DEF CallType
    <2>3. r.op = "MOUNT"
        BY <2>1 DEF NoRequest
    <2>4. PICK m : m = [c |-> c, sid |-> 0, r |-> r]
        OBVIOUS
    <2>5. m.c = c /\ m.sid = 0 /\ m.r = r /\ m.sid \in Nat
        BY <2>4
    <2>6. cpc[c] = "out" /\ Call(c, r, NameField(c)) /\ inbox' = [inbox EXCEPT ![c] = <<>>]
        BY <1>2, <2>1, Zenon DEF Mount
    <2>7. Rest(m, 0) = NameField(c)
        BY <2>2, <2>3, <2>5, BitsWritten
    <2>8. server_pipe' = (server_pipe \o <<OpCode[m.r.op]>>) \o NameField(c)
        BY <2>5, <2>6, Zenon DEF Call
    <2>9. server_pipe' = server_pipe \o Bits(m)
        BY <1>1, <2>2, <2>5, <2>7, <2>8, BitsSent
    <2>10. /\ calls > 0 /\ calls' = calls - 1
           /\ cpc' = [cpc EXCEPT ![c] = "answer"]
           /\ call' = [call EXCEPT ![c] = <<m.r>>]
           /\ returned' = [returned EXCEPT ![c] = <<>>]
           /\ UNCHANGED <<op, fields, buffer, fhandler, tableV, request, session_id, got, done, answer, spoilt>>
        BY <2>5, <2>6, Zenon DEF Call, mainV, historyV
    <2>11. m.r.op = "MOUNT" /\ m.r.op # "UNMOUNT"
        BY <2>3, <2>5
    <2>12. m \in Messages
        BY <2>2, <2>4, CallRequest DEF Messages
    <2> QED
        BY <2>2, <2>5, <2>6, <2>9, <2>10, <2>11, <2>12, Zenon DEF Send
<1>3. CASE Open(c)
    <2>1. PICK n \in Name, f \in Flags :
              OnSession(c, [NoRequest EXCEPT !.op = "OPEN", !.name = <<n>>, !.flags = f], NameField(n) \o <<f>>)
        BY <1>3 DEF Open
    <2>2. PICK r : r = [NoRequest EXCEPT !.op = "OPEN", !.name = <<n>>, !.flags = f]
        OBVIOUS
    <2>3. PICK w : w = <<n>>
        OBVIOUS
    <2>4. r.op = "OPEN" /\ r.name = w /\ r.flags = f /\ w[1] = n
        BY <2>2, <2>3 DEF NoRequest
    <2>5. PICK m : m = [c |-> c, sid |-> session_id[c], r |-> r]
        OBVIOUS
    <2>6. OnSession(c, r, NameField(n) \o <<f>>)
        BY <2>1, <2>2, Zenon
    <2>7. CallType(c, r)
        BY <2>2 DEF CallType
    <2>8. m.c = c /\ m.sid = session_id[c] /\ m.r = r /\ cpc[c] = "in" /\ m.sid \in Nat
        BY <1>1, <2>5, <2>6 DEF OnSession
    <2>9. Rest(m, 0) = Field(session_id[c]) \o (NameField(n) \o <<f>>)
        BY <2>4, <2>7, <2>8, BitsWritten
    <2>10. r.op # "MOUNT" /\ r.op # "UNMOUNT" /\ session_id[c] \in Nat
        BY <2>4, <2>8
    <2> QED
        BY <1>1, <2>5, <2>6, <2>7, <2>8, <2>9, <2>10, SendCall
<1>4. CASE Close(c)
    <2>1. PICK h \in Handle \cup {-1} : OnSession(c, [NoRequest EXCEPT !.op = "CLOSE", !.fhandle = h], Field(h))
        BY <1>4 DEF Close
    <2>2. PICK r : r = [NoRequest EXCEPT !.op = "CLOSE", !.fhandle = h]
        OBVIOUS
    <2>3. r.op = "CLOSE" /\ r.fhandle = h
        BY <2>2 DEF NoRequest
    <2>4. PICK m : m = [c |-> c, sid |-> session_id[c], r |-> r]
        OBVIOUS
    <2>5. OnSession(c, r, Field(h))
        BY <2>1, <2>2, Zenon
    <2>6. CallType(c, r)
        BY <2>2 DEF CallType
    <2>7. m.c = c /\ m.sid = session_id[c] /\ m.r = r /\ cpc[c] = "in" /\ m.sid \in Nat
        BY <1>1, <2>4, <2>5 DEF OnSession
    <2>8. Rest(m, 0) = Field(session_id[c]) \o Field(h)
        BY <2>3, <2>6, <2>7, BitsWritten
    <2>9. r.op # "MOUNT" /\ r.op # "UNMOUNT" /\ session_id[c] \in Nat
        BY <2>3, <2>7
    <2> QED
        BY <1>1, <2>4, <2>5, <2>6, <2>7, <2>8, <2>9, SendCall
<1>5. CASE Write(c)
    <2>1. PICK h \in Handle \cup {-1}, t \in Texts :
              OnSession(c, [NoRequest EXCEPT !.op = "WRITE", !.fhandle = h, !.len = Len(t), !.to_write = t],
                        Field(h) \o Field(Len(t)) \o t)
        BY <1>5 DEF Write
    <2>2. PICK r : r = [NoRequest EXCEPT !.op = "WRITE", !.fhandle = h, !.len = Len(t), !.to_write = t]
        OBVIOUS
    <2>3. r.op = "WRITE" /\ r.fhandle = h /\ r.len = Len(t) /\ r.to_write = t
        BY <2>2 DEF NoRequest
    <2>4. PICK m : m = [c |-> c, sid |-> session_id[c], r |-> r]
        OBVIOUS
    <2>5. OnSession(c, r, Field(h) \o Field(Len(t)) \o t)
        BY <2>1, <2>2, Zenon
    <2>6. CallType(c, r)
        BY <2>2 DEF CallType
    <2>7. m.c = c /\ m.sid = session_id[c] /\ m.r = r /\ cpc[c] = "in" /\ m.sid \in Nat
        BY <1>1, <2>4, <2>5 DEF OnSession
    <2>8. Rest(m, 0) = Field(session_id[c]) \o (Field(h) \o Field(Len(t)) \o t)
        BY <2>3, <2>6, <2>7, BitsWritten
    <2>9. r.op # "MOUNT" /\ r.op # "UNMOUNT" /\ session_id[c] \in Nat
        BY <2>3, <2>7
    <2> QED
        BY <1>1, <2>4, <2>5, <2>6, <2>7, <2>8, <2>9, SendCall
<1>6. CASE Read(c)
    <2>1. PICK h \in Handle \cup {-1}, n \in ReadLens :
              OnSession(c, [NoRequest EXCEPT !.op = "READ", !.fhandle = h, !.len = n], Field(h) \o Field(n))
        BY <1>6 DEF Read
    <2>2. PICK r : r = [NoRequest EXCEPT !.op = "READ", !.fhandle = h, !.len = n]
        OBVIOUS
    <2>3. r.op = "READ" /\ r.fhandle = h /\ r.len = n
        BY <2>2 DEF NoRequest
    <2>4. PICK m : m = [c |-> c, sid |-> session_id[c], r |-> r]
        OBVIOUS
    <2>5. OnSession(c, r, Field(h) \o Field(n))
        BY <2>1, <2>2, Zenon
    <2>6. CallType(c, r)
        BY <2>2 DEF CallType
    <2>7. m.c = c /\ m.sid = session_id[c] /\ m.r = r /\ cpc[c] = "in" /\ m.sid \in Nat
        BY <1>1, <2>4, <2>5 DEF OnSession
    <2>8. Rest(m, 0) = Field(session_id[c]) \o (Field(h) \o Field(n))
        BY <2>3, <2>6, <2>7, BitsWritten
    <2>9. r.op # "MOUNT" /\ r.op # "UNMOUNT" /\ session_id[c] \in Nat
        BY <2>3, <2>7
    <2> QED
        BY <1>1, <2>4, <2>5, <2>6, <2>7, <2>8, <2>9, SendCall
<1>7. CASE Unmount(c)
    <2>1. PICK r : r = [NoRequest EXCEPT !.op = "UNMOUNT"]
        OBVIOUS
    <2>2. CallType(c, r)
        BY <2>1 DEF CallType
    <2>3. r.op = "UNMOUNT"
        BY <2>1 DEF NoRequest
    <2>4. PICK m : m = [c |-> c, sid |-> session_id[c], r |-> r]
        OBVIOUS
    <2>5. m.c = c /\ m.sid = session_id[c] /\ m.r = r /\ cpc[c] = "in" /\ m.sid \in Nat
        BY <1>1, <1>7, <2>4 DEF Unmount
    <2>6. m.r.op # "MOUNT" /\ m.r.op = "UNMOUNT"
        BY <2>3, <2>5
    <2>7. Rest(m, 0) = Field(session_id[c])
        BY <2>2, <2>5, <2>6, BitsWritten
    <2>8. server_pipe' = (server_pipe \o <<OpCode[m.r.op]>>) \o Field(session_id[c])
        BY <1>7, <2>6, Zenon DEF Unmount
    <2>9. server_pipe' = server_pipe \o Bits(m)
        BY <1>1, <2>2, <2>5, <2>7, <2>8, BitsSent
    <2>10. /\ cpc' = [cpc EXCEPT ![c] = "out"] /\ UNCHANGED <<calls, call, returned>> /\ inbox' = inbox
           /\ UNCHANGED <<op, fields, buffer, fhandler, tableV, request, session_id, got, done, answer, spoilt>>
        BY <1>7, Zenon DEF Unmount, mainV, historyV
    <2>11. m \in Messages
        BY <2>2, <2>4, <2>5, CallRequest DEF Messages
    <2> QED
        BY <2>2, <2>5, <2>6, <2>9, <2>10, <2>11, Zenon DEF Send
<1> QED
    BY <1>2, <1>3, <1>4, <1>5, <1>6, <1>7 DEF NewCall

\* main is where it was.
LEMMA MainStays ==
    ASSUME MainType, op' = op, fields' = fields, buffer' = buffer
    PROVE  MainType'
<1>1. Layout' = Layout
    BY Zenon DEF Layout
<1>2. Parsed' = Parsed /\ BadHandle' = BadHandle
    BY <1>1, Zenon DEF Parsed, BadHandle
<1> QED
    BY <1>2, Zenon DEF MainType

\* A client that a step leaves alone.
LEMMA ClientStays ==
    ASSUME NEW c \in Clients, ClientType(c), cpc'[c] = cpc[c], session_id'[c] = session_id[c],
           call'[c] = call[c], got'[c] = got[c]
    PROVE  ClientType(c)'
BY Zenon DEF ClientType

\* A call of c writes a message and changes nothing but c's variables.
LEMMA TypeSent ==
    ASSUME TInv, NEW c \in Clients, NewCall(c)
    PROVE  TInv'
<1>1. PICK m : Send(c, m)
    BY Sent
<1>2. m.c = c /\ m.sid \in Nat /\ CallType(c, m.r) /\ m.c \in Clients
    BY <1>1 DEF Send, Messages
<1>3. Bits(m) \in Seq(Byte)
    BY <1>2, BitsType
<1>4. server_pipe' \in Seq(Byte)
    <2>1. server_pipe \in Seq(Byte) /\ server_pipe' = server_pipe \o Bits(m)
        BY <1>1 DEF TInv, TypeOK, MainType, Send
    <2> QED
        BY <1>3, <2>1, ConcatProperties
<1>5. op' = op /\ fields' = fields /\ buffer' = buffer /\ fhandler' = fhandler /\ request' = request
      /\ session_id' = session_id /\ got' = got /\ done' = done /\ answer' = answer /\ spoilt' = spoilt
      /\ free_sessions' = free_sessions /\ open_sessions' = open_sessions /\ global_mutex' = global_mutex
    BY <1>1 DEF Send, tableV
<1>6. MainType'
    BY <1>4, <1>5, MainStays DEF TInv
<1>7. inbox' = inbox \/ inbox' = [inbox EXCEPT ![c] = <<>>]
    BY <1>1 DEF Send
<1>8. \/ /\ m.r.op = "UNMOUNT" /\ cpc' = [cpc EXCEPT ![c] = "out"] /\ call' = call /\ calls' = calls
         /\ returned' = returned
      \/ /\ m.r.op # "UNMOUNT" /\ calls > 0 /\ calls' = calls - 1 /\ cpc' = [cpc EXCEPT ![c] = "answer"]
         /\ call' = [call EXCEPT ![c] = <<m.r>>] /\ returned' = [returned EXCEPT ![c] = <<>>]
    BY <1>1, Zenon DEF Send
<1>9. TypeOK'
    <2>1. inbox' \in [Clients -> Seq(Byte)]
        BY <1>7, EmptySeq DEF TInv, TypeOK
    <2>2. cpc' \in [Clients -> {"out", "in", "answer", "data"}]
        BY <1>8 DEF TInv, TypeOK
    <2>3. calls' \in 0 .. MaxCalls
        BY <1>8, SizeAssumption DEF TInv, TypeOK
    <2>4. \A i \in Slots : request'[i] = <<>> \/ RequestType(request'[i][1])
        BY <1>5 DEF TInv, TypeOK
    <2> QED
        BY <1>4, <1>5, <2>1, <2>2, <2>3, <2>4, Zenon DEF TInv, TypeOK
<1>10. Shapes'
    <2>1. call' = [d \in Clients |-> call'[d]]
        BY <1>8 DEF TInv, Shapes
    <2>2. returned' = [d \in Clients |-> returned'[d]]
        BY <1>8 DEF TInv, Shapes
    <2> QED
        BY <1>5, <2>1, <2>2 DEF TInv, Shapes
<1>11. ASSUME NEW d \in Clients
       PROVE  ClientType(d)'
    <2>1. ClientType(d) /\ cpc \in [Clients -> {"out", "in", "answer", "data"}]
          /\ call = [e \in Clients |-> call[e]]
        BY DEF TInv, TypeOK, Shapes
    <2>2. CASE d # c
        <3>1. cpc'[d] = cpc[d] /\ call'[d] = call[d]
            BY <1>8, <2>1, <2>2
        <3> QED
            BY <1>5, <2>1, <3>1, ClientStays
    <2>3. CASE d = c
        <3>1. CASE m.r.op = "UNMOUNT"
            <4>1. cpc'[d] = "out"
                BY <1>8, <2>1, <2>3, <3>1
            <4> QED
                BY <4>1 DEF ClientType
        <3>2. CASE m.r.op # "UNMOUNT"
            <4>1. cpc'[d] = "answer" /\ call'[d] = <<m.r>>
                BY <1>8, <2>1, <2>3, <3>2
            <4>2. call'[d][1] = m.r
                BY <4>1
            <4>3. m.r.op # "MOUNT" => session_id[c] \in Nat
                BY <1>1, <1>2 DEF Send
            <4>4. CallType(d, call'[d][1]) /\ call'[d] = <<call'[d][1]>> /\ call'[d][1].op # "UNMOUNT"
                  /\ (call'[d][1].op # "MOUNT" => session_id'[d] \in Nat)
                BY <1>2, <1>5, <2>3, <3>2, <4>1, <4>2, <4>3, Zenon
            <4>5. "answer" # "data" /\ "answer" # "in"
                OBVIOUS
            <4> QED
                BY <4>1, <4>4, <4>5, Zenon DEF ClientType
        <3> QED
            BY <3>1, <3>2
    <2> QED
        BY <2>2, <2>3
<1> QED
    BY <1>6, <1>9, <1>10, <1>11 DEF TInv

\* A client reads and returns.
LEMMA WantType ==
    ASSUME TInv, NEW c \in Clients, cpc[c] \in {"answer", "data"}
    PROVE  Want(c) \in Int /\ Have(c) \in Int
<1>1. got[c] \in Seq(Byte) /\ INT_SIZE \in Nat
    BY SizeAssumption DEF TInv, TypeOK
<1>2. PICK l \in Nat : l = Len(got[c])
    BY <1>1, LenProperties
<1>3. Have(c) \in Int
    BY <1>1, <1>2 DEF Have
<1>4. CASE cpc[c] = "data"
    <2>1. INT_SIZE <= Len(got[c])
        BY <1>1, <1>2, <1>4 DEF TInv, ClientType
    <2>2. SubSeq(got[c], 1, INT_SIZE) \in Seq(Byte)
        BY <1>1, <2>1, Prefix
    <2>3. Atoi(SubSeq(got[c], 1, INT_SIZE)) \in Int
        BY <2>2, AtoiType
    <2> QED
        BY <1>3, <1>4, <2>3 DEF Want
<1>5. CASE cpc[c] # "data"
    <2>1. CallType(c, call[c][1])
        BY DEF TInv, ClientType
    <2>2. call[c][1].len \in Nat
        BY <2>1, CallFields
    <2> QED
        BY <1>1, <1>3, <1>5, <2>2 DEF Want
<1> QED
    BY <1>4, <1>5

\* A client reads bytes of its answer.
LEMMA TypeReceive ==
    ASSUME TInv, NEW c \in Clients, Receive(c)
    PROVE  TInv'
<1>1. PICK w \in Int : w = Want(c)
    BY WantType DEF Receive
<1>2. PICK b \in Seq(Byte) : b = inbox[c]
    BY DEF TInv, TypeOK
<1>3. PICK l \in Nat \ {0} : l = Len(b)
    BY <1>2, LenProperties, EmptySeq DEF Receive
<1>4. PICK g \in Seq(Byte) : g = got[c]
    BY DEF TInv, TypeOK
<1>5. w > 0
    <2>1. Have(c) < Want(c) /\ Have(c) \in Int /\ cpc[c] \in {"answer", "data"}
        BY WantType DEF Receive
    <2>2. PICK k \in Nat : k = Len(g)
        BY LenProperties
    <2>3. Have(c) >= 0
        BY <1>4, <2>2, SizeAssumption DEF Have, TInv, ClientType
    <2> QED
        BY <1>1, <2>1, <2>3
<1>6. PICK n \in 1 .. l : n = Min({w, l})
    BY <1>5, MinPair
<1>7. /\ got' = [got EXCEPT ![c] = g \o SubSeq(b, 1, n)]
      /\ inbox' = [inbox EXCEPT ![c] = SubSeq(b, n + 1, l)]
    BY <1>1, <1>2, <1>3, <1>4, <1>6, Zenon DEF Receive
<1>8. SubSeq(b, 1, n) \in Seq(Byte) /\ SubSeq(b, n + 1, l) \in Seq(Byte)
    <2>1. n \in Nat /\ n <= Len(b) /\ n + 1 \in Nat \ {0} /\ l <= Len(b) /\ n + 1 <= l + 1
        BY <1>3
    <2> QED
        BY <2>1, Prefix, Piece
<1>9. PICK h \in Seq(Byte) : h = g \o SubSeq(b, 1, n) /\ Len(h) >= Len(g)
    <2>1. PICK t \in Seq(Byte) : t = SubSeq(b, 1, n)
        BY <1>8
    <2>2. g \o t \in Seq(Byte) /\ Len(g \o t) = Len(g) + Len(t)
        BY ConcatProperties
    <2>3. Len(g) \in Nat /\ Len(t) \in Nat
        BY LenProperties
    <2>4. Len(g \o t) >= Len(g)
        BY <2>2, <2>3
    <2> QED
        BY <2>1, <2>2, <2>4, Zenon
<1>10. /\ server_pipe' = server_pipe /\ op' = op /\ fields' = fields /\ buffer' = buffer /\ fhandler' = fhandler
       /\ request' = request /\ cpc' = cpc /\ session_id' = session_id /\ calls' = calls /\ call' = call
       /\ returned' = returned /\ done' = done /\ answer' = answer /\ spoilt' = spoilt
       /\ free_sessions' = free_sessions /\ open_sessions' = open_sessions /\ global_mutex' = global_mutex
    BY DEF Receive, mainV, tableV, historyV
<1>11. got' \in [Clients -> Seq(Byte)] /\ inbox' \in [Clients -> Seq(Byte)]
    BY <1>7, <1>8, <1>9, Zenon DEF TInv, TypeOK
<1>12. TypeOK'
    <2>1. \A i \in Slots : request'[i] = <<>> \/ RequestType(request'[i][1])
        BY <1>10 DEF TInv, TypeOK
    <2> QED
        BY <1>10, <1>11, <2>1, Zenon DEF TInv, TypeOK
<1>13. Shapes'
    BY <1>10 DEF TInv, Shapes
<1>14. MainType'
    BY <1>10, MainStays DEF TInv, MainType
<1>15. ASSUME NEW d \in Clients
       PROVE  ClientType(d)'
    <2>1. ClientType(d) /\ got \in [Clients -> Seq(Byte)]
        BY DEF TInv, TypeOK
    <2>2. CASE d # c
        <3>1. got'[d] = got[d]
            BY <1>7, <2>1, <2>2, Zenon
        <3> QED
            BY <1>10, <2>1, <3>1, ClientStays
    <2>3. CASE d = c
        <3>1. got'[d] = h
            BY <1>7, <1>9, <2>1, <2>3, Zenon
        <3>2. Len(h) \in Nat /\ Len(g) \in Nat
            BY LenProperties
        <3>3. cpc'[d] = "data" => Len(got'[d]) >= INT_SIZE
            BY <1>4, <1>9, <1>10, <2>1, <2>3, <3>1, <3>2, SizeAssumption DEF ClientType
        <3> QED
            BY <1>10, <2>1, <3>3, Zenon DEF ClientType
    <2> QED
        BY <2>2, <2>3
<1> QED
    BY <1>12, <1>13, <1>14, <1>15 DEF TInv

\* A client goes on to the bytes of a read.
LEMMA TypeReceiveData ==
    ASSUME TInv, NEW c \in Clients, ReceiveData(c)
    PROVE  TInv'
<1>1. /\ server_pipe' = server_pipe /\ op' = op /\ fields' = fields /\ buffer' = buffer /\ fhandler' = fhandler
      /\ request' = request /\ inbox' = inbox /\ got' = got /\ session_id' = session_id /\ calls' = calls
      /\ call' = call /\ returned' = returned /\ done' = done /\ answer' = answer /\ spoilt' = spoilt
      /\ free_sessions' = free_sessions /\ open_sessions' = open_sessions /\ global_mutex' = global_mutex
      /\ cpc' = [cpc EXCEPT ![c] = "data"]
    BY DEF ReceiveData, mainV, tableV, historyV
<1>2. TypeOK'
    <2>1. \A i \in Slots : request'[i] = <<>> \/ RequestType(request'[i][1])
        BY <1>1 DEF TInv, TypeOK
    <2>2. cpc' \in [Clients -> {"out", "in", "answer", "data"}]
        BY <1>1 DEF TInv, TypeOK
    <2> QED
        BY <1>1, <2>1, <2>2, Zenon DEF TInv, TypeOK
<1>3. Shapes'
    BY <1>1 DEF TInv, Shapes
<1>4. MainType'
    BY <1>1, MainStays DEF TInv, MainType
<1>5. ASSUME NEW d \in Clients
      PROVE  ClientType(d)'
    <2>1. ClientType(d) /\ cpc \in [Clients -> {"out", "in", "answer", "data"}]
        BY DEF TInv, TypeOK
    <2>2. CASE d # c
        <3>1. cpc'[d] = cpc[d]
            BY <1>1, <2>1, <2>2
        <3> QED
            BY <1>1, <2>1, <3>1, ClientStays
    <2>3. CASE d = c
        <3>1. cpc'[d] = "data" /\ cpc[d] = "answer" /\ call[d][1].op = "READ"
            BY <1>1, <2>1, <2>3 DEF ReceiveData
        <3>2. Len(got[d]) >= INT_SIZE
            BY <2>3, <3>1 DEF ReceiveData, Have, Want
        <3> QED
            BY <1>1, <2>1, <3>1, <3>2 DEF ClientType
    <2> QED
        BY <2>2, <2>3
<1> QED
    BY <1>2, <1>3, <1>4, <1>5 DEF TInv

\* A call returns.
LEMMA TypeReturn ==
    ASSUME TInv, NEW c \in Clients, Return(c)
    PROVE  TInv'
<1>1. PICK r : r = call[c][1]
    OBVIOUS
<1>2. PICK val : val = Atoi(IF r.op = "READ" THEN SubSeq(got[c], 1, INT_SIZE) ELSE got[c])
    OBVIOUS
<1>3. /\ server_pipe' = server_pipe /\ op' = op /\ fields' = fields /\ buffer' = buffer /\ fhandler' = fhandler
      /\ request' = request /\ inbox' = inbox /\ calls' = calls /\ spoilt' = spoilt
      /\ free_sessions' = free_sessions /\ open_sessions' = open_sessions /\ global_mutex' = global_mutex
      /\ call' = [call EXCEPT ![c] = <<>>] /\ got' = [got EXCEPT ![c] = <<>>]
      /\ done' = [done EXCEPT ![c] = <<>>] /\ answer' = [answer EXCEPT ![c] = <<>>]
      /\ session_id' = IF r.op = "MOUNT" THEN [session_id EXCEPT ![c] = val] ELSE session_id
      /\ cpc' = [cpc EXCEPT ![c] = IF r.op = "MOUNT" /\ val < 0 THEN "out" ELSE "in"]
    BY <1>1, <1>2, Zenon DEF Return, mainV, tableV
<1>4. PICK x : returned' = [returned EXCEPT ![c] = x]
    BY DEF Return
<1>5. val \in Int
    <2>1. got[c] \in Seq(Byte)
        BY DEF TInv, TypeOK
    <2>2. CASE r.op = "READ"
        <3>1. INT_SIZE \in Nat /\ INT_SIZE <= Len(got[c])
            <4>1. PICK l \in Nat : l = Len(got[c])
                BY <2>1, LenProperties
            <4>2. CASE cpc[c] = "data"
                BY <4>1, <4>2, SizeAssumption DEF TInv, ClientType
            <4>3. CASE cpc[c] = "answer"
                <5>1. Have(c) = l /\ Want(c) = INT_SIZE
                    BY <1>1, <2>2, <4>1, <4>3 DEF Have, Want
                <5> QED
                    BY <4>1, <5>1, SizeAssumption DEF Return
            <4> QED
                BY <4>2, <4>3 DEF Return
        <3>2. SubSeq(got[c], 1, INT_SIZE) \in Seq(Byte)
            BY <2>1, <3>1, Prefix
        <3> QED
            BY <1>2, <2>2, <3>2, AtoiType
    <2>3. CASE r.op # "READ"
        BY <1>2, <2>1, <2>3, AtoiType
    <2> QED
        BY <2>2, <2>3
<1>6. TypeOK'
    <2>1. \A i \in Slots : request'[i] = <<>> \/ RequestType(request'[i][1])
        BY <1>3 DEF TInv, TypeOK
    <2>2. cpc' \in [Clients -> {"out", "in", "answer", "data"}]
        BY <1>3 DEF TInv, TypeOK
    <2>3. session_id' \in [Clients -> Int]
        BY <1>3, <1>5 DEF TInv, TypeOK
    <2>4. got' \in [Clients -> Seq(Byte)]
        BY <1>3, EmptySeq DEF TInv, TypeOK
    <2> QED
        BY <1>3, <2>1, <2>2, <2>3, <2>4, Zenon DEF TInv, TypeOK
<1>7. Shapes'
    <2>1. call' = [d \in Clients |-> call'[d]] /\ done' = [d \in Clients |-> done'[d]]
        BY <1>3 DEF TInv, Shapes
    <2>2. answer' = [d \in Clients |-> answer'[d]] /\ returned' = [d \in Clients |-> returned'[d]]
        BY <1>3, <1>4 DEF TInv, Shapes
    <2> QED
        BY <1>3, <2>1, <2>2 DEF TInv, Shapes
<1>8. MainType'
    BY <1>3, MainStays DEF TInv, MainType
<1>9. ASSUME NEW d \in Clients
      PROVE  ClientType(d)'
    <2>1. ClientType(d) /\ cpc \in [Clients -> {"out", "in", "answer", "data"}] /\ session_id \in [Clients -> Int]
          /\ got \in [Clients -> Seq(Byte)] /\ call = [e \in Clients |-> call[e]]
        BY DEF TInv, TypeOK, Shapes
    <2>2. CASE d # c
        <3>1. cpc'[d] = cpc[d] /\ session_id'[d] = session_id[d] /\ got'[d] = got[d] /\ call'[d] = call[d]
            BY <1>3, <2>1, <2>2
        <3> QED
            BY <2>1, <3>1, ClientStays
    <2>3. CASE d = c
        <3>1. cpc'[d] = IF r.op = "MOUNT" /\ val < 0 THEN "out" ELSE "in"
            BY <1>3, <2>1, <2>3
        <3>2. session_id'[d] = IF r.op = "MOUNT" THEN val ELSE session_id[d]
            BY <1>3, <2>1, <2>3
        <3>3. r.op # "MOUNT" => session_id[d] \in Nat
            BY <1>1, <2>1, <2>3 DEF ClientType, Return
        <3>4. cpc'[d] = "in" => session_id'[d] \in Nat
            BY <1>5, <3>1, <3>2, <3>3
        <3> QED
            BY <3>1, <3>4 DEF ClientType
    <2> QED
        BY <2>2, <2>3
<1> QED
    BY <1>6, <1>7, <1>8, <1>9 DEF TInv

\* main's steps leave the clients where they are, and the workers' steps do.
LEMMA TypeClients ==
    ASSUME TInv, UNCHANGED clientV
    PROVE  /\ cpc' = cpc /\ session_id' = session_id /\ got' = got /\ calls' = calls /\ call' = call
           /\ returned' = returned /\ \A c \in Clients : ClientType(c)'
<1>1. /\ cpc' = cpc /\ session_id' = session_id /\ got' = got /\ calls' = calls /\ call' = call
      /\ returned' = returned
    BY DEF clientV
<1>2. ASSUME NEW c \in Clients
      PROVE  ClientType(c)'
    BY <1>1, ClientStays DEF TInv
<1> QED
    BY <1>1, <1>2

\* What the invariant has left when main goes back to its loop.
LEMMA MainDone ==
    ASSUME TInv, NEW o, Handled(o), ~(op \in Ops) \/ Parsed \/ BadHandle
    PROVE  /\ MainType' /\ server_pipe' = server_pipe /\ op' = "none" /\ fields' = <<>> /\ buffer' = buffer
           /\ fields' \in Seq(Seq(Byte)) /\ UNCHANGED clientV
<1>1. server_pipe' = server_pipe /\ op' = "none" /\ fields' = <<>> /\ buffer' = buffer /\ UNCHANGED clientV
    BY DEF Handled
<1>2. buffer = <<>>
    <2>1. op \in Ops \cup {"none"} /\ MainType
        BY DEF TInv, TypeOK
    <2> QED
        BY <2>1 DEF MainType
<1>3. Len(<<>>) = 0 /\ Parts("none") = 1
    BY DEF Parts
<1>4. MainType'
    BY <1>1, <1>2, <1>3 DEF MainType
<1>5. <<>> \in Seq(Seq(Byte))
    BY EmptySeq
<1> QED
    BY <1>1, <1>4, <1>5

\* An answer keeps the types.
LEMMA TypeAnswer ==
    ASSUME TInv, NEW c \in Clients, NEW p, NEW val \in Nat \cup {-1}, NEW data \in Seq(Byte),
           Answer(c, p, val, data)
    PROVE  /\ inbox' \in [Clients -> Seq(Byte)]
           /\ done' = [e \in Clients |-> done'[e]] /\ answer' = [e \in Clients |-> answer'[e]]
<1>1. PICK b \in Seq(Byte) : b = inbox[c]
    BY DEF TInv, TypeOK
<1>2. Field(val) \in Seq(Byte)
    BY FieldType
<1>3. b \o Field(val) \in Seq(Byte)
    BY <1>2, ConcatProperties
<1>4. (b \o Field(val)) \o data \in Seq(Byte)
    BY <1>3, ConcatProperties
<1>5. PICK x, y, z :
          /\ x \in Seq(Byte) /\ inbox' = [inbox EXCEPT ![c] = x] /\ done' = [done EXCEPT ![c] = y]
          /\ answer' = [answer EXCEPT ![c] = z]
    BY <1>1, <1>4, ZenonT(60) DEF Answer
<1>6. inbox \in [Clients -> Seq(Byte)] /\ done = [e \in Clients |-> done[e]]
      /\ answer = [e \in Clients |-> answer[e]]
    BY DEF TInv, TypeOK, Shapes
<1> QED
    BY <1>5, <1>6

\* So does one to the client of a slot.
LEMMA TypeReply ==
    ASSUME TInv, NEW i \in Slots, NEW p, NEW val \in Nat \cup {-1}, NEW data \in Seq(Byte), Reply(i, p, val, data)
    PROVE  /\ inbox' \in [Clients -> Seq(Byte)]
           /\ done' = [c \in Clients |-> done'[c]] /\ answer' = [c \in Clients |-> answer'[c]]
<1>1. CASE fhandler[i] = NoClient
    BY <1>1 DEF Reply, historyV, TInv, TypeOK, Shapes
<1>2. CASE fhandler[i] # NoClient
    <2>1. fhandler[i] \in Clients
        BY <1>2 DEF TInv, TypeOK
    <2>2. Answer(fhandler[i], p, val, data)
        BY <1>2, Zenon DEF Reply
    <2> QED
        BY <2>1, <2>2, TypeAnswer
<1> QED
    BY <1>1, <1>2

\* main reads a code.
LEMMA TypeCommand ==
    ASSUME TInv, Command
    PROVE  TInv'
<1>1. /\ server_pipe' = Tail(server_pipe) /\ op' = OpOf(Atoi(<<Head(server_pipe)>>)) /\ op = "none"
      /\ server_pipe # <<>> /\ server_pipe \in Seq(Byte)
      /\ fields' = fields /\ buffer' = buffer /\ fhandler' = fhandler /\ request' = request
      /\ inbox' = inbox /\ done' = done /\ answer' = answer /\ spoilt' = spoilt /\ UNCHANGED clientV
      /\ free_sessions' = free_sessions /\ open_sessions' = open_sessions /\ global_mutex' = global_mutex
    BY DEF Command, TInv, TypeOK, tableV, historyV
<1>2. op' \in Ops \cup {"none"}
    BY <1>1, OpOfCode
<1>3. server_pipe' \in Seq(Byte)
    <2>1. PICK l \in Nat \ {0} : l = Len(server_pipe)
        BY <1>1, EmptySeq, LenProperties
    <2>2. Tail(server_pipe) = SubSeq(server_pipe, 2, Len(server_pipe))
        BY <1>1, HeadTailProperties
    <2>3. SubSeq(server_pipe, 2, Len(server_pipe)) \in Seq(Byte)
        BY <1>1, <2>1, Piece
    <2> QED
        BY <1>1, <2>2, <2>3, Zenon
<1>4. fields = <<>> /\ buffer = <<>>
    BY <1>1 DEF TInv, MainType
<1>5. MainType'
    <2>1. fields' = <<>> /\ buffer' = <<>> /\ Len(fields') = 0
        BY <1>1, <1>4
    <2>2. 0 <= Parts(op') /\ ~(0 >= 1) /\ ~(0 >= 2) /\ ~(0 >= 3) /\ ~(0 >= 4)
        BY DEF Parts
    <2> QED
        BY <2>1, <2>2, Zenon DEF MainType
<1>6. TypeOK'
    <2>1. \A i \in Slots : request'[i] = <<>> \/ RequestType(request'[i][1])
        BY <1>1 DEF TInv, TypeOK
    <2> QED
        BY <1>1, <1>2, <1>3, <2>1, TypeClients, Zenon DEF TInv, TypeOK
<1>7. Shapes'
    BY <1>1, TypeClients DEF TInv, Shapes
<1> QED
    BY <1>1, <1>5, <1>6, <1>7, TypeClients DEF TInv

\* One read() of main: n bytes of the w that are asked for.
MainTakes(w, n, b) ==
    /\ w \in Nat \ {0} /\ w = Asked /\ op \in Ops /\ Len(fields) < Parts(op)
    /\ n \in Nat /\ n <= w /\ n <= Len(server_pipe) /\ (n = w \/ n = Len(server_pipe)) /\ n > 0
    /\ b = buffer \o SubSeq(server_pipe, 1, n) /\ b \in Seq(Byte) /\ Len(b) = Len(buffer) + n
    /\ server_pipe' = SubSeq(server_pipe, n + 1, Len(server_pipe))
    /\ IF Len(b) >= w
       THEN buffer' = <<>> /\ fields' = Append(fields, b)
       ELSE buffer' = b /\ fields' = fields
    /\ op' = op /\ fhandler' = fhandler /\ request' = request /\ inbox' = inbox
    /\ done' = done /\ answer' = answer /\ spoilt' = spoilt /\ UNCHANGED clientV /\ UNCHANGED tableV

\* A read of main takes at most what slait has still to read.
LEMMA MainReads ==
    ASSUME TInv, MainRead
    PROVE  \E w, n, b : MainTakes(w, n, b)
<1>1. /\ op \in Ops /\ fields \in Seq(Seq(Byte)) /\ Len(fields) <= Parts(op) /\ ~Parsed
      /\ server_pipe \in Seq(Byte) /\ server_pipe # <<>> /\ buffer \in Seq(Byte)
    BY DEF MainRead, TInv, TypeOK, MainType
<1>2. PICK w \in Nat \ {0} : w = Layout[Len(fields) + 1] /\ w = Asked
    BY <1>1, LayoutValues
<1>3. Len(fields) < Parts(op)
    <2>1. Len(fields) # Parts(op) /\ Len(fields) \in Nat /\ Parts(op) \in Nat
        BY <1>1, LayoutValues, LenProperties DEF Parts
    <2> QED
        BY <1>1, <2>1
<1>4. PICK l \in Nat \ {0} : l = Len(server_pipe)
    BY <1>1, EmptySeq, LenProperties
<1>5. PICK n \in Nat : n = Min({w, l}) /\ n <= w /\ n <= l /\ (n = w \/ n = l) /\ n > 0
    BY MinPair
<1>6. PICK t \in Seq(Byte) : t = SubSeq(server_pipe, 1, n) /\ Len(t) = n
    BY <1>1, <1>4, <1>5, Prefix, ZenonT(60)
<1>7. PICK b \in Seq(Byte) : b = buffer \o t /\ Len(b) = Len(buffer) + n
    BY <1>1, <1>6, ConcatProperties
<1>8. /\ server_pipe' = SubSeq(server_pipe, n + 1, Len(server_pipe))
      /\ IF Len(b) >= w
         THEN buffer' = <<>> /\ fields' = Append(fields, b)
         ELSE buffer' = b /\ fields' = fields
    BY <1>2, <1>4, <1>5, <1>6, <1>7, Zenon DEF MainRead
<1>9. /\ op' = op /\ fhandler' = fhandler /\ request' = request /\ inbox' = inbox
      /\ done' = done /\ answer' = answer /\ spoilt' = spoilt /\ UNCHANGED clientV /\ UNCHANGED tableV
    BY DEF MainRead, historyV
<1>10. b = buffer \o SubSeq(server_pipe, 1, n)
    BY <1>6, <1>7
<1>11. n <= Len(server_pipe) /\ (n = w \/ n = Len(server_pipe))
    BY <1>4, <1>5
<1> QED
    BY <1>1, <1>2, <1>3, <1>5, <1>7, <1>8, <1>9, <1>10, <1>11, Zenon DEF MainTakes

\* main reads a part of a message, or of what is left of it.
LEMMA TypeMainRead ==
    ASSUME TInv, MainRead
    PROVE  TInv'
<1>1. PICK w, n, b : MainTakes(w, n, b)
    BY MainReads
<1>2. /\ w \in Nat \ {0} /\ w = Asked /\ op \in Ops /\ Len(fields) < Parts(op)
      /\ n \in Nat /\ n <= w /\ n <= Len(server_pipe) /\ (n = w \/ n = Len(server_pipe)) /\ n > 0
      /\ b \in Seq(Byte) /\ Len(b) = Len(buffer) + n
      /\ op' = op /\ fhandler' = fhandler /\ request' = request /\ inbox' = inbox
      /\ done' = done /\ answer' = answer /\ spoilt' = spoilt /\ UNCHANGED clientV
      /\ free_sessions' = free_sessions /\ open_sessions' = open_sessions /\ global_mutex' = global_mutex
      /\ server_pipe' = SubSeq(server_pipe, n + 1, Len(server_pipe))
    BY <1>1, Zenon DEF MainTakes, tableV
<1>3. server_pipe \in Seq(Byte) /\ fields \in Seq(Seq(Byte)) /\ buffer \in Seq(Byte) /\ MainType
    BY DEF TInv, TypeOK
<1>4. server_pipe' \in Seq(Byte)
    <2>1. PICK l \in Nat : l = Len(server_pipe)
        BY <1>3, LenProperties
    <2>2. n + 1 \in Nat \ {0} /\ l <= Len(server_pipe) /\ n + 1 <= l + 1
        BY <1>2, <2>1
    <2> QED
        BY <1>2, <1>3, <2>1, <2>2, Piece
<1>5. PICK k \in Nat : k = Len(fields)
    BY <1>3, LenProperties
<1>6. INT_SIZE \in Nat /\ INT_SIZE > 2
    BY SizeAssumption
<1>7. ASSUME Len(b) >= w
      PROVE  MainType' /\ fields' \in Seq(Seq(Byte)) /\ buffer' \in Seq(Byte)
    <2>1. buffer' = <<>> /\ fields' = Append(fields, b)
        BY <1>1, <1>7 DEF MainTakes
    <2>2. PICK f : f = Append(fields, b)
        OBVIOUS
    <2>3. f \in Seq(Seq(Byte)) /\ Len(f) = k + 1 /\ f[k + 1] = b /\ \A j \in 1 .. k : f[j] = fields[j]
        BY <1>2, <1>3, <1>5, <2>2, AppendProperties
    <2>4. fields' = f /\ Len(fields') = k + 1
        BY <2>1, <2>2, <2>3
    <2>5. <<>> \in Seq(Byte)
        BY EmptySeq
    <2>6. Len(fields') <= Parts(op')
        <3>1. PICK x \in Nat : x = Parts(op)
            BY DEF Parts
        <3> QED
            BY <1>2, <1>5, <2>4, <3>1
    <2>7. op = "OPEN" /\ k + 1 >= 1 => Len(f[1]) >= INT_SIZE + NAME_SIZE + 1
        <3>1. ASSUME op = "OPEN"
              PROVE  Len(f[1]) >= INT_SIZE + NAME_SIZE + 1
            <4>1. k = 0 /\ w = INT_SIZE + NAME_SIZE + 1
                <5>1. Parts(op) = 1 /\ Asked = INT_SIZE + NAME_SIZE + 1
                    BY <3>1 DEF Parts, Asked
                <5>2. k < 1 /\ w = INT_SIZE + NAME_SIZE + 1
                    BY <1>2, <1>5, <5>1, Zenon
                <5> QED
                    BY <5>2
            <4> QED
                BY <1>7, <2>3, <4>1
        <3> QED
            BY <3>1
    <2>8. op = "WRITE" /\ k + 1 >= 4 => Len(f[4]) >= Atoi(f[3])
        <3>1. ASSUME op = "WRITE", k + 1 >= 4
              PROVE  Len(f[4]) >= Atoi(f[3])
            <4>1. k = 3
                <5>1. Parts(op) = 4
                    BY <3>1 DEF Parts
                <5>2. k < 4
                    BY <1>2, <1>5, <5>1, Zenon
                <5> QED
                    BY <3>1, <5>2
            <4>2. w = Atoi(fields[3])
                BY <1>2, <1>5, <3>1, <4>1 DEF Asked
            <4>3. f[4] = b /\ f[3] = fields[3]
                BY <2>3, <4>1
            <4> QED
                BY <1>7, <4>2, <4>3
        <3> QED
            BY <3>1
    <2>9. op \in {"CLOSE", "READ", "WRITE"} /\ k + 1 >= 3 => Atoi(f[2]) # -1
        <3>1. ASSUME op \in {"CLOSE", "READ", "WRITE"}, k + 1 >= 3
              PROVE  Atoi(f[2]) # -1
            <4>1. CASE k = 2
                <5>1. Atoi(fields[2]) # -1
                    BY <1>5, <3>1, <4>1 DEF MainRead, BadHandle
                <5>2. f[2] = fields[2]
                    <6>1. 2 \in 1 .. k
                        BY <4>1
                    <6> QED
                        BY <2>3, <6>1, Zenon
                <5> QED
                    BY <5>1, <5>2, Zenon
            <4>2. CASE k >= 3
                <5>1. Atoi(fields[2]) # -1
                    BY <1>3, <1>5, <3>1, <4>2 DEF MainType
                <5>2. f[2] = fields[2]
                    <6>1. 2 \in 1 .. k
                        BY <1>5, <4>2
                    <6> QED
                        BY <2>3, <6>1, Zenon
                <5> QED
                    BY <5>1, <5>2, Zenon
            <4> QED
                BY <1>5, <3>1, <4>1, <4>2
        <3> QED
            BY <3>1
    <2>10. op # "none"
        BY DEF MainRead
    <2>11. MainType'
        BY <1>2, <2>1, <2>4, <2>6, <2>7, <2>8, <2>9, <2>10, Zenon DEF MainType
    <2>12. fields' \in Seq(Seq(Byte)) /\ buffer' \in Seq(Byte)
        BY <2>1, <2>3, <2>4, <2>5
    <2> QED
        BY <2>11, <2>12
<1>8. ASSUME ~(Len(b) >= w)
      PROVE  MainType' /\ fields' \in Seq(Seq(Byte)) /\ buffer' \in Seq(Byte)
    <2>1. buffer' = b /\ fields' = fields
        BY <1>1, <1>8 DEF MainTakes
    <2>2. Layout' = Layout
        BY <1>2, <2>1, Zenon DEF Layout
    <2>3. Parsed' = Parsed /\ BadHandle' = BadHandle
        BY <1>2, <2>1, <2>2, Zenon DEF Parsed, BadHandle
    <2>4. ~Parsed /\ ~BadHandle /\ op # "none"
        BY DEF MainRead
    <2>5. MainType'
        BY <1>2, <1>3, <2>1, <2>3, <2>4, Zenon DEF MainType
    <2> QED
        BY <1>2, <1>3, <2>1, <2>5
<1>9. MainType' /\ fields' \in Seq(Seq(Byte)) /\ buffer' \in Seq(Byte)
    BY <1>7, <1>8
<1>10. TypeOK'
    <2>1. \A i \in Slots : request'[i] = <<>> \/ RequestType(request'[i][1])
        BY <1>2 DEF TInv, TypeOK
    <2>2. op' \in Ops \cup {"none"}
        BY <1>2
    <2> QED
        BY <1>2, <1>4, <1>9, <2>1, <2>2, TypeClients, Zenon DEF TInv, TypeOK
<1>11. Shapes'
    BY <1>2, TypeClients DEF TInv, Shapes
<1> QED
    BY <1>2, <1>9, <1>10, <1>11, TypeClients DEF TInv

\* The slots, the count of the sessions and the mutex.
TableType ==
    free_sessions \subseteq Slots /\ open_sessions \in 0 .. S /\ global_mutex \in {"free", "kept", "awaited"}

\* They may stay as they are.
LEMMA TableStays ==
    ASSUME TInv
    PROVE  TableType /\ (UNCHANGED tableV => TableType')
BY DEF TInv, TypeOK, TableType, tableV

\* The steps of main that answer or post nothing, or post a request of the right type.
LEMMA TypeHandled ==
    ASSUME TInv, NEW o, Handled(o), Parsed \/ BadHandle,
           fhandler' \in [Slots -> Clients \cup {NoClient}], inbox' \in [Clients -> Seq(Byte)],
           done' = [c \in Clients |-> done'[c]], answer' = [c \in Clients |-> answer'[c]],
           spoilt' \in BOOLEAN, request' = [i \in Slots |-> request'[i]],
           \A i \in Slots : request'[i] = <<>> \/ RequestType(request'[i][1]), TableType'
    PROVE  TInv'
<1>1. /\ MainType' /\ server_pipe' = server_pipe /\ op' = "none" /\ fields' \in Seq(Seq(Byte))
      /\ buffer' = buffer /\ UNCHANGED clientV
    BY MainDone
<1>2. /\ cpc' = cpc /\ session_id' = session_id /\ got' = got /\ calls' = calls /\ call' = call
      /\ returned' = returned /\ \A c \in Clients : ClientType(c)'
    BY <1>1, TypeClients
<1>3. TypeOK'
    BY <1>1, <1>2 DEF TInv, TypeOK, TableType
<1>4. Shapes'
    BY <1>2 DEF TInv, Shapes
<1> QED
    BY <1>1, <1>2, <1>3, <1>4 DEF TInv

\* A request whose fields have their types is posted.
LEMMA PostType ==
    ASSUME TInv, NEW i, NEW r, Post(i, r), RequestType(r)
    PROVE  /\ request' = [j \in Slots |-> request'[j]]
           /\ \A j \in Slots : request'[j] = <<>> \/ RequestType(request'[j][1])
<1>1. i \in Slots /\ request' = [request EXCEPT ![i] = <<r>>] /\ request = [j \in Slots |-> request[j]]
    BY DEF Post, TInv, Shapes
<1>2. request' = [j \in Slots |-> request'[j]]
    BY <1>1
<1>3. ASSUME NEW j \in Slots
      PROVE  request'[j] = <<>> \/ RequestType(request'[j][1])
    <2>1. CASE j = i
        <3>1. request'[j] = <<r>>
            BY <1>1, <2>1
        <3>2. request'[j][1] = r
            BY <3>1
        <3> QED
            BY <3>2
    <2>2. CASE j # i
        <3>1. request'[j] = request[j]
            BY <1>1, <2>2
        <3> QED
            BY <3>1 DEF TInv, TypeOK
    <2> QED
        BY <2>1, <2>2
<1> QED
    BY <1>2, <1>3

\* main posts it and answers nobody.
LEMMA TypePost ==
    ASSUME TInv, NEW o, Handled(o), Parsed, NEW i, NEW r, Post(i, r), RequestType(r),
           UNCHANGED <<fhandler, inbox, historyV, spoilt>>, TableType'
    PROVE  TInv'
<1>1. fhandler' = fhandler /\ inbox' = inbox /\ done' = done /\ answer' = answer /\ spoilt' = spoilt
    BY DEF historyV
<1>2. /\ fhandler' \in [Slots -> Clients \cup {NoClient}] /\ inbox' \in [Clients -> Seq(Byte)]
      /\ done' = [c \in Clients |-> done'[c]] /\ answer' = [c \in Clients |-> answer'[c]] /\ spoilt' \in BOOLEAN
    BY <1>1 DEF TInv, TypeOK, Shapes
<1> QED
    BY <1>2, PostType, TypeHandled

\* The request of a mount.
LEMMA MountType ==
    ASSUME NEW c \in Clients
    PROVE  RequestType(MountOf(c)) /\ CallType(c, MountOf(c)) /\ MountOf(c).op = "MOUNT"
<1>1. PICK w \in Seq(Byte) : w = <<c>>
    <2>1. c \in Byte
        BY ByteType DEF Letter
    <2>2. <<c>> \in Seq(Byte)
        BY <2>1
    <2> QED
        BY <2>2
<1>2. PICK r : r = [NoRequest EXCEPT !.op = "MOUNT", !.name = w]
    OBVIOUS
<1>3. MountOf(c) = r
    BY <1>1, <1>2, Zenon DEF MountOf
<1>4. /\ DOMAIN r = DOMAIN NoRequest /\ r.op = "MOUNT" /\ r.fhandle = -1 /\ r.len = 0 /\ r.name = w /\ r.flags = 0
      /\ r.to_write = <<>>
    BY <1>2 DEF NoRequest
<1>5. "MOUNT" \in Ops
    BY DEF Ops, OpCode
<1>6. RequestType(r)
    BY <1>1, <1>4, <1>5, EmptySeq DEF RequestType
<1>7. CallType(c, MountOf(c))
    BY DEF CallType, MountOf
<1> QED
    BY <1>3, <1>4, <1>6, <1>7

\* tfs_handle_mount keeps the types,
LEMMA TypeHandleMount ==
    ASSUME TInv, HandleMount
    PROVE  TInv'
<1>1. Handled("MOUNT") /\ Parsed /\ fhandler' = fhandler /\ spoilt' = spoilt
    BY DEF HandleMount
<1>2. PICK c \in Clients :
          \/ Answer(c, MountOf(c), -1, <<>>) /\ UNCHANGED <<request, tableV>>
          \/ /\ Answer(c, MountOf(c), -1, <<>>) /\ global_mutex' = "kept"
             /\ UNCHANGED <<request, free_sessions, open_sessions>>
          \/ /\ Post(Min(free_sessions), MountOf(c)) /\ open_sessions # S /\ open_sessions' = open_sessions + 1
             /\ free_sessions' = free_sessions \ {Min(free_sessions)}
             /\ UNCHANGED <<global_mutex, inbox, historyV>>
    BY Zenon DEF HandleMount
<1>3. fhandler' \in [Slots -> Clients \cup {NoClient}] /\ spoilt' \in BOOLEAN
    BY <1>1 DEF TInv, TypeOK
<1>4. CASE request' = request /\ Answer(c, MountOf(c), -1, <<>>) /\ TableType'
    <2>1. <<>> \in Seq(Byte) /\ -1 \in Nat \cup {-1}
        BY EmptySeq
    <2>2. /\ inbox' \in [Clients -> Seq(Byte)]
          /\ done' = [d \in Clients |-> done'[d]] /\ answer' = [d \in Clients |-> answer'[d]]
        BY <1>4, <2>1, TypeAnswer
    <2>3. /\ request' = [j \in Slots |-> request'[j]]
          /\ \A j \in Slots : request'[j] = <<>> \/ RequestType(request'[j][1])
        BY <1>4 DEF TInv, TypeOK, Shapes
    <2> QED
        BY <1>1, <1>3, <1>4, <2>2, <2>3, TypeHandled
<1>5. CASE /\ Post(Min(free_sessions), MountOf(c)) /\ open_sessions # S /\ open_sessions' = open_sessions + 1
           /\ free_sessions' = free_sessions \ {Min(free_sessions)}
           /\ UNCHANGED <<global_mutex, inbox, historyV>>
    <2>1. TableType'
        BY <1>5, SizeAssumption DEF TInv, TypeOK, TableType
    <2> QED
        BY <1>1, <1>5, <2>1, MountType, TypePost
<1>6. TableType /\ (UNCHANGED tableV => TableType')
    BY TableStays
<1>7. global_mutex' = "kept" /\ UNCHANGED <<free_sessions, open_sessions>> => TableType'
    BY <1>6 DEF TableType
<1> QED
    BY <1>2, <1>4, <1>5, <1>6, <1>7

\* tfs_handle_unmount,
LEMMA TypeHandleUnmount ==
    ASSUME TInv, HandleUnmount
    PROVE  TInv'
<1>1. Handled("UNMOUNT") /\ Parsed /\ UNCHANGED <<fhandler, inbox, historyV, spoilt>>
    BY DEF HandleUnmount
<1>2. PICK i : i = Atoi(fields[1])
    OBVIOUS
<1>3. CASE UNCHANGED <<request, tableV>>
    <2>1. fhandler' = fhandler /\ inbox' = inbox /\ done' = done /\ answer' = answer /\ spoilt' = spoilt
          /\ request' = request
        BY <1>1, <1>3 DEF historyV
    <2>2. /\ fhandler' \in [Slots -> Clients \cup {NoClient}] /\ inbox' \in [Clients -> Seq(Byte)]
          /\ done' = [c \in Clients |-> done'[c]] /\ answer' = [c \in Clients |-> answer'[c]] /\ spoilt' \in BOOLEAN
          /\ request' = [j \in Slots |-> request'[j]]
          /\ \A j \in Slots : request'[j] = <<>> \/ RequestType(request'[j][1])
        BY <2>1 DEF TInv, TypeOK, Shapes
    <2> QED
        BY <1>1, <1>3, <2>2, TableStays, TypeHandled
<1>4. CASE /\ open_sessions # 0 /\ Post(i, [NoRequest EXCEPT !.op = "UNMOUNT"])
           /\ \/ open_sessions' = open_sessions - 1 /\ UNCHANGED global_mutex
              \/ global_mutex' = "awaited" /\ UNCHANGED open_sessions
           /\ UNCHANGED free_sessions
    <2>1. PICK r : r = [NoRequest EXCEPT !.op = "UNMOUNT"]
        OBVIOUS
    <2>2. Post(i, r)
        BY <1>4, <2>1
    <2>3. /\ DOMAIN r = DOMAIN NoRequest /\ r.op = "UNMOUNT" /\ r.fhandle = -1 /\ r.len = 0 /\ r.name = <<>>
          /\ r.flags = 0 /\ r.to_write = <<>>
        BY <2>1 DEF NoRequest
    <2>4. "UNMOUNT" \in Ops
        BY DEF Ops, OpCode
    <2>5. RequestType(r)
        BY <2>3, <2>4, EmptySeq DEF RequestType
    <2>6. TableType'
        <3>1. free_sessions \subseteq Slots /\ open_sessions \in 0 .. S /\ global_mutex \in {"free", "kept", "awaited"}
            BY DEF TInv, TypeOK
        <3>2. open_sessions' \in 0 .. S
            BY <1>4, <3>1, SizeAssumption
        <3>3. free_sessions' = free_sessions /\ (global_mutex' = global_mutex \/ global_mutex' = "awaited")
            BY <1>4
        <3> QED
            BY <3>1, <3>2, <3>3 DEF TableType
    <2> QED
        BY <1>1, <2>2, <2>5, <2>6, TypePost
<1> QED
    BY <1>2, <1>3, <1>4, Zenon DEF HandleUnmount

\* How many fields a handler has when it goes on.
LEMMA FieldsRead ==
    ASSUME TInv, op \in Ops, Parsed
    PROVE  /\ fields \in Seq(Seq(Byte)) /\ Len(fields) \in Nat
           /\ \A k \in 1 .. Len(fields) : fields[k] \in Seq(Byte) /\ Atoi(fields[k]) \in Int
           /\ op \in {"MOUNT", "UNMOUNT", "OPEN"} => Len(fields) = 1
           /\ op = "CLOSE" => Len(fields) = 2
           /\ op = "READ" => Len(fields) = 3
           /\ op = "WRITE" => Len(fields) = 4 \/ (Len(fields) = 3 /\ Atoi(fields[3]) <= 0)
<1>1. fields \in Seq(Seq(Byte)) /\ Len(fields) <= Parts(op)
    BY DEF TInv, TypeOK, MainType
<1>2. Len(fields) = Parts(op) \/ (op = "WRITE" /\ Len(fields) = 3 /\ Atoi(fields[3]) <= 0)
    BY <1>1, LayoutValues
<1>3. Len(fields) \in Nat
    BY <1>1, LenProperties
<1>4. ASSUME NEW k \in 1 .. Len(fields)
      PROVE  fields[k] \in Seq(Byte) /\ Atoi(fields[k]) \in Int
    <2>1. fields[k] \in Seq(Byte)
        BY <1>1, ElementOfSeq
    <2> QED
        BY <2>1, AtoiType
<1>5. /\ op \in {"MOUNT", "UNMOUNT", "OPEN"} => Parts(op) = 1 /\ op # "WRITE"
      /\ op = "CLOSE" => Parts(op) = 2
      /\ op = "READ" => Parts(op) = 3
      /\ op = "WRITE" => Parts(op) = 4
    BY DEF Parts
<1>6. op = "CLOSE" \/ op = "READ" => op # "WRITE"
    OBVIOUS
<1> QED
    BY <1>1, <1>2, <1>3, <1>4, <1>5, <1>6, Zenon

\* tfs_handle_open,
LEMMA TypeHandleOpen ==
    ASSUME TInv, HandleOpen
    PROVE  TInv'
<1>1. Handled("OPEN") /\ Parsed /\ op = "OPEN" /\ UNCHANGED <<fhandler, inbox, historyV, spoilt>>
      /\ TableType'
    BY TableStays DEF HandleOpen, Handled
<1>2. op \in Ops
    BY <1>1 DEF Ops, OpCode
<1>3. Len(fields) = 1 /\ fields[1] \in Seq(Byte)
    <2>1. Len(fields) = 1 /\ \A k \in 1 .. Len(fields) : fields[k] \in Seq(Byte)
        BY <1>1, <1>2, FieldsRead
    <2> QED
        BY <2>1
<1>4. PICK m \in Seq(Byte) : m = fields[1]
    BY <1>3
<1>5. PICK l \in Nat : l = Len(m)
    BY LenProperties
<1>6. l >= INT_SIZE + NAME_SIZE + 1 /\ INT_SIZE \in Nat /\ NAME_SIZE \in Nat
    BY <1>1, <1>3, <1>4, <1>5, SizeAssumption DEF TInv, MainType
<1>7. PICK x \in Seq(Byte) : x = CString(SubSeq(m, INT_SIZE + 1, INT_SIZE + NAME_SIZE))
    <2>1. SubSeq(m, INT_SIZE + 1, INT_SIZE + NAME_SIZE) \in Seq(Byte)
        <3>1. INT_SIZE + 1 \in Nat \ {0} /\ INT_SIZE + NAME_SIZE \in Nat /\ INT_SIZE + NAME_SIZE <= Len(m)
              /\ INT_SIZE + 1 <= INT_SIZE + NAME_SIZE + 1
            BY <1>5, <1>6
        <3> QED
            BY <3>1, Piece
    <2> QED
        BY <2>1, CStringType
<1>8. PICK y \in Int : y = Atoi(SubSeq(m, INT_SIZE + NAME_SIZE + 1, Len(m)))
    <2>1. SubSeq(m, INT_SIZE + NAME_SIZE + 1, Len(m)) \in Seq(Byte)
        <3>1. INT_SIZE + NAME_SIZE + 1 \in Nat \ {0} /\ Len(m) \in Nat /\ Len(m) <= Len(m)
              /\ INT_SIZE + NAME_SIZE + 1 <= Len(m) + 1
            BY <1>5, <1>6
        <3> QED
            BY <3>1, Piece
    <2> QED
        BY <2>1, AtoiType
<1>9. PICK i, r : /\ r = [NoRequest EXCEPT !.op = "OPEN", !.name = x, !.flags = y] /\ Post(i, r)
    BY <1>4, <1>7, <1>8, Zenon DEF HandleOpen
<1>10. RequestType(r)
    <2>1. "OPEN" \in Ops
        BY DEF Ops, OpCode
    <2>2. /\ DOMAIN r = DOMAIN NoRequest /\ r.op = "OPEN" /\ r.len = 0 /\ r.name = x /\ r.flags = y
          /\ r.to_write = <<>> /\ r.fhandle = -1
        BY <1>9 DEF NoRequest
    <2> QED
        BY <2>1, <2>2, EmptySeq DEF RequestType
<1> QED
    BY <1>1, <1>9, <1>10, TypePost

\* tfs_handle_close,
LEMMA TypeHandleClose ==
    ASSUME TInv, HandleClose
    PROVE  TInv'
<1>1. Handled("CLOSE") /\ Parsed /\ ~BadHandle /\ op = "CLOSE" /\ UNCHANGED <<fhandler, inbox, historyV, spoilt>>
      /\ TableType'
    BY TableStays DEF HandleClose, Handled
<1>2. op \in Ops
    BY <1>1 DEF Ops, OpCode
<1>3. Len(fields) = 2 /\ \A k \in 1 .. Len(fields) : Atoi(fields[k]) \in Int
    BY <1>1, <1>2, FieldsRead
<1>4. PICK h \in Int : h # -1 /\ h = Atoi(fields[2])
    <2>1. Atoi(fields[2]) \in Int
        BY <1>3
    <2>2. Atoi(fields[2]) # -1
        BY <1>1, <1>3 DEF BadHandle
    <2> QED
        BY <2>1, <2>2
<1>5. PICK i, r : r = [NoRequest EXCEPT !.op = "CLOSE", !.fhandle = h] /\ Post(i, r)
    BY <1>4, Zenon DEF HandleClose
<1>6. RequestType(r)
    <2>1. "CLOSE" \in Ops
        BY DEF Ops, OpCode
    <2>2. /\ DOMAIN r = DOMAIN NoRequest /\ r.op = "CLOSE" /\ r.len = 0 /\ r.name = <<>> /\ r.flags = 0
          /\ r.to_write = <<>> /\ r.fhandle = h
        BY <1>5 DEF NoRequest
    <2> QED
        BY <1>4, <2>1, <2>2, EmptySeq DEF RequestType
<1> QED
    BY <1>1, <1>5, <1>6, TypePost

\* tfs_handle_read, whose length is not negative,
LEMMA TypeHandleRead ==
    ASSUME TInv, HandleRead
    PROVE  TInv'
<1>1. Handled("READ") /\ Parsed /\ op = "READ" /\ UNCHANGED <<fhandler, inbox, historyV, spoilt>>
      /\ TableType'
    BY TableStays DEF HandleRead, Handled
<1>2. op \in Ops
    BY <1>1 DEF Ops, OpCode
<1>3. Len(fields) = 3 /\ \A k \in 1 .. Len(fields) : Atoi(fields[k]) \in Int
    BY <1>1, <1>2, FieldsRead
<1>4. PICK h \in Int : h # -1 /\ h = Atoi(fields[2])
    <2>1. Atoi(fields[2]) # -1
        BY <1>1, <1>3 DEF TInv, MainType
    <2>2. Atoi(fields[2]) \in Int
        BY <1>3
    <2> QED
        BY <2>1, <2>2
<1>5. PICK n \in Nat : n = Atoi(fields[3])
    BY <1>3 DEF HandleRead
<1>6. PICK i, r : r = [NoRequest EXCEPT !.op = "READ", !.fhandle = h, !.len = n] /\ Post(i, r)
    BY <1>4, <1>5, Zenon DEF HandleRead
<1>7. RequestType(r)
    <2>1. "READ" \in Ops
        BY DEF Ops, OpCode
    <2>2. /\ DOMAIN r = DOMAIN NoRequest /\ r.op = "READ" /\ r.len = n /\ r.name = <<>> /\ r.flags = 0
          /\ r.to_write = <<>> /\ r.fhandle = h
        BY <1>6 DEF NoRequest
    <2> QED
        BY <1>4, <2>1, <2>2, EmptySeq DEF RequestType
<1> QED
    BY <1>1, <1>6, <1>7, TypePost

\* tfs_handle_write, with the text it takes,
LEMMA TypeHandleWrite ==
    ASSUME TInv, HandleWrite
    PROVE  TInv'
<1>1. Handled("WRITE") /\ Parsed /\ op = "WRITE" /\ UNCHANGED <<fhandler, inbox, historyV, spoilt>>
      /\ TableType'
    BY TableStays DEF HandleWrite, Handled
<1>2. op \in Ops
    BY <1>1 DEF Ops, OpCode
<1>3. Len(fields) = 4 \/ (Len(fields) = 3 /\ Atoi(fields[3]) <= 0)
    BY <1>1, <1>2, FieldsRead
<1>4. \A k \in 1 .. Len(fields) : fields[k] \in Seq(Byte) /\ Atoi(fields[k]) \in Int
    BY <1>1, <1>2, FieldsRead
<1>5. PICK h \in Int : h # -1 /\ h = Atoi(fields[2])
    <2>1. Atoi(fields[2]) \in Int /\ Atoi(fields[2]) # -1
        <3>1. Len(fields) >= 2 /\ Len(fields) >= 3
            <4>1. PICK l : l = Len(fields) /\ l \in {3, 4}
                BY <1>3, Zenon
            <4>2. l >= 2 /\ l >= 3
                BY <4>1
            <4> QED
                BY <4>1, <4>2, Zenon
        <3>2. op \in {"CLOSE", "READ", "WRITE"} /\ MainType
            BY <1>1 DEF TInv
        <3>3. Atoi(fields[2]) \in Int
            BY <1>3, <1>4
        <3> QED
            BY <3>1, <3>2, <3>3, Zenon DEF MainType
    <2> QED
        BY <2>1
<1>6. PICK n \in Nat : n = Atoi(fields[3])
    BY <1>3, <1>4 DEF HandleWrite
<1>7. PICK x \in Seq(Byte) : x = IF n = 0 THEN <<>> ELSE SubSeq(fields[4], 1, n)
    <2>1. CASE n = 0
        BY <2>1, EmptySeq
    <2>2. CASE n # 0
        <3>1. Len(fields) = 4
            BY <1>3, <1>6, <2>2
        <3>2. fields[4] \in Seq(Byte) /\ Len(fields[4]) >= n
            BY <1>1, <1>4, <1>6, <3>1 DEF TInv, MainType
        <3>3. n <= Len(fields[4])
            <4>1. PICK l \in Nat : l = Len(fields[4])
                BY <3>2, LenProperties
            <4> QED
                BY <3>2, <4>1
        <3>4. SubSeq(fields[4], 1, n) \in Seq(Byte)
            BY <3>2, <3>3, Prefix
        <3> QED
            BY <2>2, <3>4
    <2> QED
        BY <2>1, <2>2
<1>8. PICK i, r : r = [NoRequest EXCEPT !.op = "WRITE", !.fhandle = h, !.len = n, !.to_write = x] /\ Post(i, r)
    BY <1>5, <1>6, <1>7, Zenon DEF HandleWrite
<1>9. RequestType(r)
    <2>1. "WRITE" \in Ops
        BY DEF Ops, OpCode
    <2>2. /\ DOMAIN r = DOMAIN NoRequest /\ r.op = "WRITE" /\ r.len = n /\ r.name = <<>> /\ r.flags = 0
          /\ r.to_write = x /\ r.fhandle = h
        BY <1>8 DEF NoRequest
    <2> QED
        BY <1>5, <2>1, <2>2, EmptySeq DEF RequestType
<1> QED
    BY <1>1, <1>8, <1>9, TypePost

\* and the answer to a bad handle.
LEMMA TypeHandleBadHandle ==
    ASSUME TInv, HandleBadHandle
    PROVE  TInv'
<1>1. BadHandle /\ Handled(op) /\ fhandler' = fhandler /\ request' = request /\ spoilt' = (spoilt \/ op # "CLOSE")
      /\ TableType'
    BY TableStays DEF HandleBadHandle
<1>2. PICK i, p : i \in Slots /\ Reply(i, p, Atoi(fields[2]), <<>>)
    BY DEF HandleBadHandle
<1>3. Atoi(fields[2]) = -1
    BY <1>1 DEF BadHandle
<1>4. PICK v \in Nat \cup {-1} : v = Atoi(fields[2])
    BY <1>3
<1>5. PICK e \in Seq(Byte) : e = <<>>
    BY EmptySeq
<1>6. Reply(i, p, v, e)
    BY <1>2, <1>4, <1>5
<1>7. /\ inbox' \in [Clients -> Seq(Byte)]
      /\ done' = [c \in Clients |-> done'[c]] /\ answer' = [c \in Clients |-> answer'[c]]
    BY <1>2, <1>6, TypeReply
<1>8. /\ fhandler' \in [Slots -> Clients \cup {NoClient}] /\ request' = [j \in Slots |-> request'[j]]
      /\ \A j \in Slots : request'[j] = <<>> \/ RequestType(request'[j][1])
    BY <1>1 DEF TInv, TypeOK, Shapes
<1>9. spoilt' \in BOOLEAN
    BY <1>1
<1> QED
    BY <1>1, <1>7, <1>8, <1>9, TypeHandled

\* A step of a worker that leaves the types of what it changes.
LEMMA TypeWorker ==
    ASSUME TInv, UNCHANGED <<server_pipe, mainV, clientV, spoilt>>,
           fhandler' \in [Slots -> Clients \cup {NoClient}], inbox' \in [Clients -> Seq(Byte)],
           done' = [c \in Clients |-> done'[c]], answer' = [c \in Clients |-> answer'[c]],
           NEW i, request' = request \/ request' = [request EXCEPT ![i] = <<>>], TableType'
    PROVE  TInv'
<1>1. /\ server_pipe' = server_pipe /\ op' = op /\ fields' = fields /\ buffer' = buffer
      /\ spoilt' = spoilt /\ UNCHANGED clientV
    BY DEF mainV
<1>2. /\ cpc' = cpc /\ session_id' = session_id /\ got' = got /\ calls' = calls /\ call' = call
      /\ returned' = returned /\ \A c \in Clients : ClientType(c)'
    BY <1>1, TypeClients
<1>3. MainType'
    BY <1>1, MainStays DEF TInv, MainType
<1>4. /\ request' = [j \in Slots |-> request'[j]]
      /\ \A j \in Slots : request'[j] = <<>> \/ RequestType(request'[j][1])
    <2>1. request = [j \in Slots |-> request[j]]
        BY DEF TInv, Shapes
    <2>2. request' = [j \in Slots |-> request'[j]] /\ \A j \in Slots : request'[j] = <<>> \/ request'[j] = request[j]
        BY <2>1
    <2> QED
        BY <2>2 DEF TInv, TypeOK
<1>5. TypeOK'
    BY <1>1, <1>2, <1>4, Zenon DEF TInv, TypeOK, TableType
<1>6. Shapes'
    BY <1>2, <1>4 DEF TInv, Shapes
<1> QED
    BY <1>2, <1>3, <1>5, <1>6 DEF TInv

\* A worker answers.
LEMMA TypeSolve ==
    ASSUME TInv, NEW i \in Slots, NEW o, NEW val \in Nat \cup {-1}, NEW data \in Seq(Byte), Solve(i, o, val, data)
    PROVE  TInv'
<1>1. /\ request' = [request EXCEPT ![i] = <<>>] /\ Reply(i, request[i][1], val, data)
      /\ UNCHANGED <<server_pipe, mainV, clientV, spoilt>> /\ fhandler' = fhandler /\ TableType'
    BY TableStays DEF Solve
<1>2. /\ inbox' \in [Clients -> Seq(Byte)]
      /\ done' = [c \in Clients |-> done'[c]] /\ answer' = [c \in Clients |-> answer'[c]]
    BY <1>1, TypeReply
<1>3. fhandler' \in [Slots -> Clients \cup {NoClient}]
    BY <1>1 DEF TInv, TypeOK
<1> QED
    BY <1>1, <1>2, <1>3, TypeWorker

\* A worker gives its session to a client,
LEMMA TypeThreadMount ==
    ASSUME TInv, NEW i \in Slots, ThreadMount(i)
    PROVE  TInv'
<1>1. PICK c \in Clients : fhandler' = [fhandler EXCEPT ![i] = c] /\ Answer(c, request[i][1], i, <<>>)
    BY DEF ThreadMount
<1>2. /\ request' = [request EXCEPT ![i] = <<>>] /\ UNCHANGED <<server_pipe, mainV, clientV, spoilt>> /\ TableType'
    BY TableStays DEF ThreadMount
<1>3. fhandler' \in [Slots -> Clients \cup {NoClient}]
    BY <1>1 DEF TInv, TypeOK
<1>4. i \in Nat \cup {-1} /\ <<>> \in Seq(Byte)
    BY SizeAssumption, EmptySeq DEF Slots
<1>5. /\ inbox' \in [Clients -> Seq(Byte)]
      /\ done' = [d \in Clients |-> done'[d]] /\ answer' = [d \in Clients |-> answer'[d]]
    BY <1>1, <1>4, TypeAnswer
<1> QED
    BY <1>2, <1>3, <1>5, TypeWorker

\* and takes it from one.
LEMMA TypeThreadUnmount ==
    ASSUME TInv, NEW i \in Slots, ThreadUnmount(i)
    PROVE  TInv'
<1>1. /\ fhandler' = [fhandler EXCEPT ![i] = NoClient]
      /\ request' = request \/ request' = [request EXCEPT ![i] = <<>>]
      /\ free_sessions' = free_sessions \/ free_sessions' = free_sessions \cup {i}
      /\ open_sessions' = open_sessions /\ global_mutex' = global_mutex
      /\ UNCHANGED <<server_pipe, mainV, clientV, inbox, historyV, spoilt>>
    BY DEF ThreadUnmount
<1>2. TableType'
    BY <1>1 DEF TInv, TypeOK, TableType
<1>3. fhandler' \in [Slots -> Clients \cup {NoClient}]
    BY <1>1 DEF TInv, TypeOK
<1>4. /\ inbox' \in [Clients -> Seq(Byte)]
      /\ done' = [c \in Clients |-> done'[c]] /\ answer' = [c \in Clients |-> answer'[c]]
    BY <1>1 DEF historyV, TInv, TypeOK, Shapes
<1> QED
    BY <1>1, <1>2, <1>3, <1>4, TypeWorker

\* What a worker answers: a read's number with as many bytes, or another number.
LEMMA WorkerAnswers ==
    ASSUME TInv, NEW i \in Slots, ThreadOpen(i) \/ ThreadClose(i) \/ ThreadWrite(i) \/ ThreadRead(i)
    PROVE  \E o \in {"OPEN", "CLOSE", "WRITE", "READ"}, val \in Nat \cup {-1}, data \in Seq(Byte) :
               /\ Solve(i, o, val, data) /\ request[i] # <<>>
               /\ o = "OPEN" => val \in Handle \cup {-1}
               /\ o = "CLOSE" => val \in {0, -1}
               /\ o \in {"WRITE", "READ"} => val <= request[i][1].len
               /\ IF o = "READ" THEN (val = -1 /\ data = <<>>) \/ (val \in Nat /\ Len(data) = val)
                                ELSE data = <<>>
<1>1. <<>> \in Seq(Byte) /\ -1 \in Nat \cup {-1} /\ 0 \in Nat \cup {-1}
    BY EmptySeq
<1>2. CASE ThreadOpen(i)
    <2>1. PICK h \in Handle \cup {-1} : Solve(i, "OPEN", h, <<>>)
        BY <1>2 DEF ThreadOpen
    <2>2. h \in Nat \cup {-1}
        BY HandleAssumption
    <2>3. request[i] # <<>>
        BY <2>1 DEF Solve
    <2> QED
        BY <1>1, <2>1, <2>2, <2>3
<1>3. CASE ThreadClose(i)
    <2>1. PICK v \in {0, -1} : Solve(i, "CLOSE", v, <<>>)
        BY <1>3 DEF ThreadClose
    <2>2. v \in Nat \cup {-1}
        OBVIOUS
    <2>3. request[i] # <<>>
        BY <2>1 DEF Solve
    <2> QED
        BY <1>1, <2>1, <2>2, <2>3
<1>4. CASE ThreadWrite(i)
    <2>1. request[i] # <<>> /\ request[i][1].len \in Nat
        BY <1>4 DEF ThreadWrite, TInv, TypeOK, RequestType
    <2>2. PICK n \in 0 .. request[i][1].len : Solve(i, "WRITE", n, <<>>)
        BY <1>4 DEF ThreadWrite
    <2>3. n \in Nat \cup {-1} /\ n <= request[i][1].len
        BY <2>1
    <2> QED
        BY <1>1, <2>1, <2>2, <2>3
<1>5. CASE ThreadRead(i)
    <2>1. request[i] # <<>> /\ request[i][1].len \in Nat
        BY <1>5 DEF ThreadRead, TInv, TypeOK, RequestType
    <2>2. CASE Solve(i, "READ", -1, <<>>)
        <3>1. -1 <= request[i][1].len
            BY <2>1
        <3> QED
            BY <1>1, <2>1, <2>2, <3>1
    <2>3. CASE \E t \in Texts \cup {<<>>} :
                  LET n == Min({request[i][1].len, Len(t)}) IN Solve(i, "READ", n, SubSeq(t, 1, n))
        <3>1. PICK t \in Texts \cup {<<>>} :
                  Solve(i, "READ", Min({request[i][1].len, Len(t)}), SubSeq(t, 1, Min({request[i][1].len, Len(t)})))
            BY <2>3
        <3>2. t \in Seq(Byte) /\ Len(t) \in Nat
            BY EmptySeq, TextType
        <3>3. PICK n \in Nat : n = Min({request[i][1].len, Len(t)}) /\ n <= request[i][1].len /\ n <= Len(t)
            BY <2>1, <3>2, MinPair
        <3>4. SubSeq(t, 1, n) \in Seq(Byte) /\ Len(SubSeq(t, 1, n)) = n
            BY <3>2, <3>3, Prefix
        <3>5. Solve(i, "READ", n, SubSeq(t, 1, n))
            BY <3>1, <3>3, Zenon
        <3> QED
            BY <2>1, <3>3, <3>4, <3>5
    <2> QED
        BY <1>5, <2>2, <2>3 DEF ThreadRead
<1> QED
    BY <1>2, <1>3, <1>4, <1>5

\* The types are an invariant.
LEMMA TypeInit ==
    ASSUME Init
    PROVE  TInv
<1>1. /\ server_pipe = <<>> /\ op = "none" /\ fields = <<>> /\ buffer = <<>>
      /\ fhandler = [i \in Slots |-> NoClient] /\ request = [i \in Slots |-> <<>>]
      /\ cpc = [c \in Clients |-> "out"] /\ session_id = [c \in Clients |-> -1]
      /\ inbox = [c \in Clients |-> <<>>] /\ got = inbox /\ calls = MaxCalls
      /\ call = inbox /\ done = inbox /\ answer = inbox /\ returned = inbox /\ spoilt = FALSE
      /\ free_sessions = Slots /\ open_sessions = 0 /\ global_mutex = "free"
    BY DEF Init
<1>2. <<>> \in Seq(Byte) /\ <<>> \in Seq(Seq(Byte))
    BY EmptySeq
<1>3. free_sessions \subseteq Slots /\ open_sessions \in 0 .. S /\ global_mutex \in {"free", "kept", "awaited"}
    BY <1>1, SizeAssumption
<1>4. TypeOK
    <2>1. calls \in 0 .. MaxCalls
        BY <1>1, SizeAssumption
    <2>2. spoilt \in BOOLEAN
        BY <1>1, Zenon
    <2>3. inbox \in [Clients -> Seq(Byte)] /\ got \in [Clients -> Seq(Byte)]
        BY <1>1, <1>2
    <2>4. cpc \in [Clients -> {"out", "in", "answer", "data"}] /\ session_id \in [Clients -> Int]
        BY <1>1
    <2>5. /\ fhandler \in [Slots -> Clients \cup {NoClient}]
          /\ \A i \in Slots : request[i] = <<>> \/ RequestType(request[i][1])
        BY <1>1
    <2>6. op \in Ops \cup {"none"}
        BY <1>1
    <2> QED
        BY <1>1, <1>2, <1>3, <2>1, <2>3, <2>4, <2>5, <2>6, <2>2, Zenon DEF TypeOK
<1>5. Shapes
    BY <1>1 DEF Shapes
<1>6. MainType
    <2>1. Len(fields) = 0 /\ Parts(op) = 1
        BY <1>1 DEF Parts
    <2> QED
        BY <1>1, <2>1 DEF MainType
<1>7. \A c \in Clients : ClientType(c)
    BY <1>1 DEF ClientType
<1> QED
    BY <1>4, <1>5, <1>6, <1>7 DEF TInv

\* Every step keeps the types.
LEMMA TypeNext ==
    ASSUME TInv, [Next]_vars
    PROVE  TInv'
<1>1. CASE \E c \in Clients : NewCall(c)
    BY <1>1, TypeSent
<1>2. CASE \E c \in Clients : ClientStep(c)
    BY <1>2, TypeReceive, TypeReceiveData, TypeReturn DEF ClientStep
<1>3. CASE MainStep
    BY <1>3, TypeMainRead, TypeCommand, TypeHandleMount, TypeHandleUnmount, TypeHandleOpen, TypeHandleClose,
       TypeHandleRead, TypeHandleWrite, TypeHandleBadHandle DEF MainStep
<1>4. CASE \E i \in Slots : WorkerStep(i)
    <2>1. PICK i \in Slots : WorkerStep(i)
        BY <1>4
    <2>2. CASE ThreadOpen(i) \/ ThreadClose(i) \/ ThreadWrite(i) \/ ThreadRead(i)
        <3>1. PICK o \in {"OPEN", "CLOSE", "WRITE", "READ"}, val \in Nat \cup {-1}, data \in Seq(Byte) :
                  Solve(i, o, val, data)
            BY <2>2, WorkerAnswers, Zenon
        <3> QED
            BY <3>1, TypeSolve
    <2> QED
        BY <2>1, <2>2, TypeThreadMount, TypeThreadUnmount DEF WorkerStep
<1>5. CASE UNCHANGED vars
    <2>1. /\ server_pipe' = server_pipe /\ op' = op /\ fields' = fields /\ buffer' = buffer
          /\ fhandler' = fhandler /\ request' = request /\ UNCHANGED clientV /\ inbox' = inbox
          /\ done' = done /\ answer' = answer /\ spoilt' = spoilt
          /\ free_sessions' = free_sessions /\ open_sessions' = open_sessions /\ global_mutex' = global_mutex
        BY <1>5 DEF vars, mainV, tableV, historyV
    <2>2. MainType'
        BY <2>1, MainStays DEF TInv, MainType
    <2>3. TypeOK' /\ Shapes'
        BY <2>1, TypeClients DEF TInv, TypeOK, Shapes
    <2> QED
        BY <2>1, <2>2, <2>3, TypeClients DEF TInv
<1> QED
    BY <1>1, <1>2, <1>3, <1>4, <1>5 DEF Next

\* Whatever bytes are left behind in the server's pipe, and whatever main then takes for a
\* message, bytes, fields and requests keep their types, and no worker is given the handle -1.
THEOREM TypeCorrect == Spec => []TypeOK
<1>1. Init => TInv
    BY TypeInit
<1>2. TInv /\ [Next]_vars => TInv'
    BY TypeNext
<1>3. TInv => TypeOK
    BY DEF TInv
<1> QED
    BY <1>1, <1>2, <1>3, PTL DEF Spec

(***************************************************************************)
(* The invariant while no bytes have been left behind, for the messages q  *)
(* that main has not handled yet.                                          *)
(***************************************************************************)
Reading(q) ==
    /\ buffer = <<>>
    /\ op = "none" => Stream(server_pipe, q)
    /\ op # "none" =>
          /\ q # <<>> /\ op = q[1].r.op
          /\ \A k \in 1 .. Len(fields) : fields[k] = Part(q[1], k)
          /\ \E t \in Seq(Byte) : server_pipe = Rest(q[1], Len(fields)) \o t /\ Stream(t, Tail(q))

\* Nothing has been performed or answered for c.
Fresh(c) == done[c] = <<>> /\ answer[c] = <<>> /\ got[c] = <<>> /\ inbox[c] = <<>>

\* Slot i is a session of c, until its worker has an unmount.
Serves(i, c) == fhandler[i] = c /\ (request[i] # <<>> => request[i][1].op # "UNMOUNT")

\* The client of a message waits, or has mounted again after it.
Queued(m) ==
    /\ m.sid \in Slots /\ CallType(m.c, m.r)
    /\ m.r.op # "MOUNT" => Serves(m.sid, m.c)
    /\ m.r.op # "UNMOUNT" => cpc[m.c] = "answer" /\ call[m.c] = <<m.r>> /\ Fresh(m.c)
    /\ m.r.op = "UNMOUNT" => \/ cpc[m.c] = "out"
                             \/ cpc[m.c] = "answer" /\ call[m.c][1].op = "MOUNT" /\ Fresh(m.c)

\* Two messages of a client are an unmount and the next mount.
Ordered(q) ==
    \A j, k \in 1 .. Len(q) : j < k /\ q[j].c = q[k].c => q[j].r.op = "UNMOUNT" /\ q[k].r.op = "MOUNT"

Absent(q, c) == \A k \in 1 .. Len(q) : q[k].c # c

\* What a request asks to read can be written into a field, as can all that is less.
Short(r) == r.op = "READ" => \A v \in 0 .. r.len : Len(Digits[v]) <= INT_SIZE

\* The worker of slot i has a call that somebody waits for, and who does.
Active(i) == request[i] # <<>> /\ request[i][1].op # "UNMOUNT"
Caller(i) == IF request[i][1].op = "MOUNT" THEN request[i][1].name[1] ELSE fhandler[i]

\* The client c waits for the request r, which is its call.
Waits(q, c, r) ==
    /\ c \in Clients /\ cpc[c] = "answer" /\ Fresh(c) /\ call[c][1].op # "UNMOUNT"
    /\ Contract!Fits(call[c][1], r) /\ Short(r) /\ Absent(q, c)

\* The request of slot i is its client's call; a mount finds the slot without a client.
Posted(q, i) ==
    /\ request[i] # <<>> => request[i] = <<request[i][1]>>
    /\ Active(i) =>
          /\ Waits(q, Caller(i), request[i][1])
          /\ request[i][1].op = "MOUNT" => fhandler[i] = NoClient /\ request[i][1].name = <<Caller(i)>>

\* No two workers have calls of one client.
Single == \A i, j \in Slots : Active(i) /\ Active(j) /\ Caller(i) = Caller(j) => i = j

\* A free slot has no client and its worker no request.
Free == \A i \in free_sessions : request[i] = <<>> /\ fhandler[i] = NoClient

\* The answer v, d to the call of c, and how much of it c has read.
AnsweredWith(c, p, v, d) ==
    /\ done[c] = <<p>> /\ answer[c] = <<[val |-> v, data |-> d]>> /\ Contract!Fits(call[c][1], p)
    /\ d \in Seq(Byte)
    /\ IF call[c][1].op = "READ" THEN (v = -1 /\ d = <<>>) \/ (v \in Nat /\ Len(d) = v) ELSE d = <<>>
    /\ call[c][1].op = "MOUNT" => v = -1 \/ (v \in Slots /\ Serves(v, c))
    /\ v \in Nat \cup {-1} /\ Atoi(Field(v)) = v
    /\ \/ cpc[c] = "answer" /\ got[c] = <<>> /\ inbox[c] = Field(v) \o d
       \/ cpc[c] = "answer" /\ got[c] = Field(v) /\ inbox[c] = d
       \/ cpc[c] = "data" /\ v \in Nat /\ got[c] = Field(v) /\ inbox[c] = d
       \/ cpc[c] = "data" /\ v \in Nat /\ got[c] = Field(v) \o d /\ inbox[c] = <<>>

Answered(c) == \E p, v, d : AnsweredWith(c, p, v, d)

Client(c) ==
    /\ cpc[c] = "out" => call[c] = <<>> /\ Fresh(c)
    /\ cpc[c] = "in"  => call[c] = <<>> /\ Fresh(c) /\ session_id[c] \in Slots /\ Serves(session_id[c], c)
    /\ cpc[c] \in {"answer", "data"} =>
          /\ call[c][1].op # "MOUNT" => session_id[c] \in Slots /\ Serves(session_id[c], c)
          /\ (cpc[c] = "answer" /\ Fresh(c)) \/ Answered(c)

Settled(q) ==
    /\ \A k \in 1 .. Len(q) : Queued(q[k])
    /\ Ordered(q) /\ Single /\ Free
    /\ \A i \in Slots : Posted(q, i)
    /\ \A c \in Clients : Client(c)

WInv == ~spoilt => \E q \in Seq(Messages) : Reading(q) /\ Settled(q)

(***************************************************************************)
(* What main reads.                                                        *)
(***************************************************************************)
\* The messages behind the first.
LEMMA QueueTail ==
    ASSUME NEW q \in Seq(Messages), q # <<>>
    PROVE  /\ Len(q) \in Nat \ {0} /\ 1 \in 1 .. Len(q) /\ q[1] \in Messages /\ q[1].c \in Clients /\ q[1].sid \in Nat
           /\ Tail(q) \in Seq(Messages) /\ Len(Tail(q)) + 1 = Len(q)
           /\ \A k \in 1 .. Len(Tail(q)) : Tail(q)[k] = q[k + 1] /\ k + 1 \in 1 .. Len(q) /\ k + 1 # 1
           /\ \A k \in 1 .. Len(q) : k = 1 \/ (k - 1 \in 1 .. Len(Tail(q)) /\ Tail(q)[k - 1] = q[k])
<1>1. PICK l \in Nat \ {0} : l = Len(q)
    BY EmptySeq, LenProperties
<1>2. PICK t : t = Tail(q)
    OBVIOUS
<1>3. t \in Seq(Messages) /\ Len(t) = l - 1 /\ \A k \in 1 .. l - 1 : t[k] = q[k + 1]
    BY <1>1, <1>2, HeadTailProperties
<1>4. 1 \in 1 .. Len(q) /\ q[1] \in Messages
    BY <1>1, ElementOfSeq
<1>5. q[1].c \in Clients /\ q[1].sid \in Nat
    BY <1>4 DEF Messages
<1>6. \A k \in 1 .. Len(t) : t[k] = q[k + 1] /\ k + 1 \in 1 .. Len(q) /\ k + 1 # 1
    BY <1>1, <1>3
<1>7. ASSUME NEW k \in 1 .. Len(q), k # 1
      PROVE  k - 1 \in 1 .. Len(t) /\ t[k - 1] = q[k]
    <2>1. k - 1 \in 1 .. l - 1 /\ (k - 1) + 1 = k
        BY <1>1, <1>7
    <2> QED
        BY <1>3, <2>1
<1>8. Len(t) + 1 = Len(q) /\ Len(q) \in Nat \ {0}
    BY <1>1, <1>3
<1> QED
    BY <1>2, <1>3, <1>4, <1>5, <1>6, <1>7, <1>8

\* One more message.
LEMMA QueueAppend ==
    ASSUME NEW q \in Seq(Messages), NEW m \in Messages
    PROVE  /\ Append(q, m) \in Seq(Messages) /\ Append(q, m) # <<>>
           /\ Len(q) \in Nat /\ Len(Append(q, m)) = Len(q) + 1
           /\ Append(q, m)[Len(q) + 1] = m /\ Len(q) + 1 \in 1 .. Len(Append(q, m))
           /\ \A k \in 1 .. Len(q) : Append(q, m)[k] = q[k] /\ k \in 1 .. Len(Append(q, m))
           /\ \A k \in 1 .. Len(Append(q, m)) : k \in 1 .. Len(q) \/ k = Len(q) + 1
<1>1. PICK l \in Nat : l = Len(q)
    BY LenProperties
<1>2. PICK t : t = Append(q, m)
    OBVIOUS
<1>3. t \in Seq(Messages) /\ Len(t) = l + 1 /\ t[l + 1] = m /\ \A k \in 1 .. l : t[k] = q[k]
    BY <1>1, <1>2, AppendProperties
<1>4. t # <<>>
    BY <1>3, EmptySeq
<1>5. /\ l + 1 \in 1 .. Len(t) /\ \A k \in 1 .. l : k \in 1 .. Len(t)
      /\ \A k \in 1 .. Len(t) : k \in 1 .. l \/ k = l + 1
    BY <1>3
<1> QED
    BY <1>1, <1>2, <1>3, <1>4, <1>5

\* The bytes of the message that main is reading.
LEMMA FirstMessage ==
    ASSUME NEW q \in Seq(Messages), q # <<>>, CallType(q[1].c, q[1].r)
    PROVE  /\ q[1].c \in Clients /\ q[1].sid \in Nat
           /\ \A k \in 1 .. 4 : Part(q[1], k) \in Seq(Byte)
           /\ \A k \in 0 .. 4 : Rest(q[1], k) \in Seq(Byte)
           /\ \A k \in 0 .. 3 : Rest(q[1], k) = Part(q[1], k + 1) \o Rest(q[1], k + 1)
           /\ Rest(q[1], Parts(q[1].r.op)) = <<>>
           /\ Bits(q[1]) \in Seq(Byte)
<1>1. PICK m : m = q[1]
    OBVIOUS
<1>2. m.c \in Clients /\ m.sid \in Nat /\ CallType(m.c, m.r)
    BY <1>1, QueueTail
<1>3. /\ \A k \in 0 .. 4 : Rest(m, k) \in Seq(Byte)
      /\ \A k \in 0 .. 3 : Rest(m, k) = Part(m, k + 1) \o Rest(m, k + 1)
      /\ Rest(m, Parts(m.r.op)) = <<>>
    BY <1>2, RestStep
<1>4. \A k \in 1 .. 4 : Part(m, k) \in Seq(Byte)
    BY <1>2, PartType
<1>5. Bits(m) \in Seq(Byte)
    BY <1>2, BitsType
<1> QED
    BY <1>1, <1>2, <1>3, <1>4, <1>5, Zenon

\* A message goes to the end of the stream.
LEMMA ReadingSent ==
    ASSUME TInv, NEW q \in Seq(Messages), Reading(q), \A k \in 1 .. Len(q) : CallType(q[k].c, q[k].r),
           NEW c \in Clients, NEW m, Send(c, m)
    PROVE  Reading(Append(q, m))'
<1>1. /\ server_pipe' = server_pipe \o Bits(m) /\ op' = op /\ fields' = fields /\ buffer' = buffer
      /\ m \in Messages /\ m.c \in Clients /\ m.sid \in Nat /\ CallType(m.c, m.r)
    BY DEF Send, Messages
<1>2. PICK x \in Seq(Byte) : x = Bits(m)
    BY <1>1, BitsType
<1>3. PICK u : u = Append(q, m)
    OBVIOUS
<1>4. /\ u \in Seq(Messages) /\ u # <<>> /\ Len(q) \in Nat
      /\ \A k \in 1 .. Len(q) : u[k] = q[k]
    BY <1>1, <1>3, QueueAppend
<1>5. ASSUME NEW p \in Seq(Messages), \A k \in 1 .. Len(p) : CallType(p[k].c, p[k].r)
      PROVE  \A k \in 1 .. Len(p) : Bits(p[k]) \in Seq(Byte)
    <2>1. ASSUME NEW k \in 1 .. Len(p)
          PROVE  Bits(p[k]) \in Seq(Byte)
        <3>1. p[k] \in Messages
            BY ElementOfSeq
        <3>2. p[k].c \in Clients /\ p[k].sid \in Nat
            BY <3>1 DEF Messages
        <3> QED
            BY <1>5, <3>2, BitsType
    <2> QED
        BY <2>1
<1>6. ASSUME op = "none"
      PROVE  Stream(server_pipe \o x, u)
    <2>1. \A k \in 1 .. Len(q) : Bits(q[k]) \in Seq(Byte)
        BY <1>5
    <2>2. Stream(server_pipe, q)
        BY <1>6 DEF Reading
    <2>3. Stream(server_pipe \o Bits(m), Append(q, m))
        BY <1>1, <1>2, <2>1, <2>2, StreamAppend
    <2> QED
        BY <1>2, <1>3, <2>3
<1>7. ASSUME op # "none"
      PROVE  /\ op = u[1].r.op
             /\ \A k \in 1 .. Len(fields) : fields[k] = Part(u[1], k)
             /\ \E t \in Seq(Byte) : server_pipe \o x = Rest(u[1], Len(fields)) \o t /\ Stream(t, Tail(u))
    <2>1. /\ q # <<>> /\ op = q[1].r.op
          /\ \A k \in 1 .. Len(fields) : fields[k] = Part(q[1], k)
        BY <1>7 DEF Reading
    <2>2. PICK t \in Seq(Byte) : server_pipe = Rest(q[1], Len(fields)) \o t /\ Stream(t, Tail(q))
        BY <1>7 DEF Reading
    <2>3. PICK z \in Seq(Messages) : z = Tail(q) /\ \A k \in 1 .. Len(z) : z[k] = q[k + 1] /\ k + 1 \in 1 .. Len(q)
        BY <2>1, QueueTail
    <2>4. \A k \in 1 .. Len(z) : CallType(z[k].c, z[k].r)
        BY <2>3
    <2>5. \A k \in 1 .. Len(z) : Bits(z[k]) \in Seq(Byte)
        BY <1>5, <2>4
    <2>6. Stream(t \o Bits(m), Append(z, m))
        BY <1>1, <1>2, <2>2, <2>3, <2>5, StreamAppend
    <2>7. u[1] = q[1]
        BY <1>4, <2>1, QueueTail
    <2>8. Tail(u) = Append(z, m)
        <3>1. PICK l \in Nat \ {0} : l = Len(q)
            BY <2>1, QueueTail
        <3>2. Len(u) = l + 1 /\ u[l + 1] = m
            BY <1>1, <1>3, <3>1, QueueAppend
        <3>3. PICK v : v = Tail(u)
            OBVIOUS
        <3>4. v \in Seq(Messages) /\ Len(v) = l /\ \A k \in 1 .. l : v[k] = u[k + 1]
            BY <1>4, <3>2, <3>3, QueueTail
        <3>5. PICK w : w = Append(z, m)
            OBVIOUS
        <3>6. Len(z) + 1 = l
            BY <2>1, <2>3, <3>1, QueueTail
        <3>7. /\ w \in Seq(Messages) /\ Len(w) = Len(z) + 1 /\ w[Len(z) + 1] = m
              /\ \A k \in 1 .. Len(z) : w[k] = z[k]
            BY <1>1, <3>5, QueueAppend
        <3>8. Len(z) \in Nat /\ Len(z) = l - 1
            BY <3>6, LenProperties
        <3>9. ASSUME NEW k \in 1 .. l
              PROVE  v[k] = w[k]
            <4>1. CASE k = l
                BY <3>2, <3>4, <3>6, <3>7, <4>1
            <4>2. CASE k # l
                <5>1. k \in 1 .. Len(z) /\ k + 1 \in 1 .. Len(q)
                    BY <3>1, <3>8, <4>2
                <5> QED
                    BY <1>4, <2>3, <3>4, <3>7, <5>1
            <4> QED
                BY <4>1, <4>2
        <3>10. v = w
            BY <3>4, <3>6, <3>7, <3>9, SeqEqual
        <3> QED
            BY <3>3, <3>5, <3>10
    <2>9. PICK k \in 0 .. 4 : k = Len(fields)
        <3>1. fields \in Seq(Seq(Byte)) /\ Len(fields) <= Parts(op)
            BY DEF TInv, TypeOK, MainType
        <3>2. PICK j \in Nat : j = Len(fields)
            BY <3>1, LenProperties
        <3>3. PICK n \in 0 .. 4 : n = Parts(op)
            BY DEF Parts
        <3>4. j <= n
            BY <3>1, <3>2, <3>3
        <3>5. j \in 0 .. 4
            BY <3>4
        <3> QED
            BY <3>2, <3>5
    <2>10. Rest(q[1], k) \in Seq(Byte)
        <3>1. CallType(q[1].c, q[1].r)
            BY <2>1, QueueTail
        <3> QED
            BY <2>1, <3>1, FirstMessage
    <2>11. server_pipe \o x = Rest(q[1], k) \o (t \o x)
        BY <2>2, <2>9, <2>10, Regroup, Zenon
    <2>12. t \o x \in Seq(Byte)
        BY ConcatProperties
    <2>13. Stream(t \o x, Tail(u)) /\ server_pipe \o x = Rest(u[1], Len(fields)) \o (t \o x)
        BY <1>2, <2>6, <2>7, <2>8, <2>9, <2>11, Zenon
    <2> QED
        BY <2>1, <2>7, <2>12, <2>13, Zenon
<1>8. buffer = <<>>
    BY DEF Reading
<1>9. Reading(u)'
    <2>1. server_pipe' = server_pipe \o x
        BY <1>1, <1>2
    <2> QED
        BY <1>1, <1>4, <1>6, <1>7, <1>8, <2>1, Zenon DEF Reading
<1> QED
    BY <1>3, <1>9

\* Nobody but main and the writers of the pipe disturbs what main reads.
LEMMA ReadingStays ==
    ASSUME NEW q, Reading(q), server_pipe' = server_pipe, op' = op, fields' = fields, buffer' = buffer
    PROVE  Reading(q)'
BY Zenon DEF Reading

\* The first byte of the stream is the first message's op code.
LEMMA ReadingCommand ==
    ASSUME TInv, NEW q \in Seq(Messages), Reading(q), \A k \in 1 .. Len(q) : CallType(q[k].c, q[k].r), Command
    PROVE  Reading(q)'
<1>1. /\ server_pipe # <<>> /\ Stream(server_pipe, q) /\ server_pipe' = Tail(server_pipe)
      /\ op' = OpOf(Atoi(<<Head(server_pipe)>>)) /\ fields' = fields /\ buffer' = buffer /\ fields = <<>>
      /\ buffer = <<>>
    BY DEF Command, Reading, TInv, MainType
<1>2. q # <<>>
    BY <1>1, StreamEmpty
<1>3. PICK t \in Seq(Byte) : server_pipe = Bits(q[1]) \o t /\ Stream(t, Tail(q))
    BY <1>1, <1>2, StreamFirst
<1>4. PICK m : m = q[1]
    OBVIOUS
<1>5. m.c \in Clients /\ m.sid \in Nat /\ CallType(m.c, m.r)
    BY <1>2, <1>4, QueueTail
<1>6. PICK r \in Seq(Byte) : r = Rest(m, 0)
    BY <1>5, RestStep
<1>7. m.r.op \in Ops
    BY <1>5, CallFields
<1>8. PICK n \in 0 .. 9 : n = OpCode[m.r.op] /\ OpOf(n) = m.r.op
    <2>1. OpCode[m.r.op] \in 1 .. 6 /\ OpOf(OpCode[m.r.op]) = m.r.op
        BY <1>7, OpOfCode, Zenon
    <2>2. OpCode[m.r.op] \in 0 .. 9
        BY <2>1
    <2> QED
        BY <2>1, <2>2, Zenon
<1>9. PICK s \in Seq(Byte) : s = <<n>> /\ Len(s) = 1 /\ s[1] = n
    BY OneByte
<1>10. Bits(m) = s \o r
    BY <1>6, <1>8, <1>9, Zenon DEF Bits
<1>11. PICK z \in Seq(Byte) : z = r \o t
    BY ConcatProperties
<1>12. server_pipe = s \o z
    <2>1. s \o (r \o t) = (s \o r) \o t
        BY Regroup
    <2> QED
        BY <1>3, <1>4, <1>10, <1>11, <2>1, Zenon
<1>13. Head(server_pipe) = n /\ Tail(server_pipe) = z
    <2>1. PICK b \in Seq(Byte) : b = s \o z
        BY ConcatProperties
    <2>2. Len(b) = 1 + Len(z) /\ SubSeq(b, 1 + 1, Len(b)) = z
        BY <1>9, <2>1, SplitConcat
    <2>3. Len(z) \in Nat /\ 1 + 1 = 2
        BY LenProperties
    <2>4. b # <<>>
        BY <2>2, <2>3, EmptySeq
    <2>5. Head(b) = b[1] /\ Tail(b) = SubSeq(b, 2, Len(b))
        BY <2>4, HeadTailProperties
    <2>6. \A k \in 1 .. Len(s) + Len(z) : b[k] = IF k <= Len(s) THEN s[k] ELSE z[k - Len(s)]
        BY <2>1, ConcatProperties
    <2>7. b[1] = n
        BY <1>9, <2>3, <2>6
    <2>8. Tail(b) = z
        BY <2>2, <2>3, <2>5, Zenon
    <2> QED
        BY <1>12, <2>1, <2>5, <2>7, <2>8, Zenon
<1>14. op' = m.r.op /\ server_pipe' = r \o t
    <2>1. Atoi(<<n>>) = n
        BY AtoiDigit
    <2> QED
        BY <1>1, <1>8, <1>11, <1>13, <2>1, Zenon
<1>15. op' # "none"
    BY <1>7, <1>14 DEF Ops, OpCode
<1>16. Len(fields') = 0 /\ \A k \in 1 .. Len(fields') : fields'[k] = Part(m, k)
    BY <1>1
<1> QED
    BY <1>1, <1>2, <1>3, <1>4, <1>6, <1>14, <1>15, <1>16, Zenon DEF Reading

\* main's next read is the next part of the message, whole.
LEMMA AskedPart ==
    ASSUME TInv, NEW m, m.c \in Clients, m.sid \in Nat, CallType(m.c, m.r), op = m.r.op, Len(fields) < Parts(op),
           \A k \in 1 .. Len(fields) : fields[k] = Part(m, k)
    PROVE  Len(Part(m, Len(fields) + 1)) = Asked
<1>1. PICK j \in Nat : j = Len(fields)
    BY LenProperties DEF TInv, TypeOK
<1>2. /\ m.r.op \in Ops /\ m.r.fhandle \in Nat \cup {-1} /\ m.r.len \in Nat
      /\ m.r.op = "OPEN" => m.r.name[1] \in Letter /\ m.r.flags \in 0 .. 9
      /\ m.r.op = "WRITE" => m.r.to_write \in Texts /\ m.r.len = Len(m.r.to_write)
    <2>1. PICK r : r = m.r
        OBVIOUS
    <2>2. CallType(m.c, r)
        BY <2>1
    <2>3. /\ r.op \in Ops /\ r.fhandle \in Handle \cup {-1} /\ r.len \in Nat
          /\ r.op = "OPEN" => r.name[1] \in Name /\ r.flags \in Flags
          /\ r.op = "WRITE" => r.to_write \in Texts /\ r.len = Len(r.to_write)
        BY <2>2, CallFields
    <2>4. Handle \cup {-1} \subseteq Nat \cup {-1} /\ Flags \subseteq 0 .. 9 /\ Name \subseteq Letter
        BY HandleAssumption, FlagsAssumption DEF Letter
    <2> QED
        BY <2>1, <2>3, <2>4
<1>3. Len(Field(m.sid)) = INT_SIZE /\ Len(Field(m.r.fhandle)) = INT_SIZE /\ Len(Field(m.r.len)) = INT_SIZE
    BY <1>2, FieldType
<1>4. CASE j = 0
    <2>1. Len(Part(m, 1)) = Asked
        <3>1. CASE m.r.op = "MOUNT"
            <4>1. Part(m, 1) = NameField(m.c) /\ Asked = NAME_SIZE
                BY <3>1 DEF Part, Asked
            <4> QED
                BY <4>1, NameFieldType DEF Letter
        <3>2. CASE m.r.op = "OPEN"
            <4>1. PICK n \in Letter, f \in 0 .. 9 : m.r.name[1] = n /\ m.r.flags = f
                BY <1>2, <3>2
            <4>2. Part(m, 1) = Field(m.sid) \o (NameField(n) \o <<f>>) /\ Asked = INT_SIZE + NAME_SIZE + 1
                BY <3>2, <4>1 DEF Part, Asked
            <4>3. PICK a \in Seq(Byte), b \in Seq(Byte), d \in Seq(Byte) :
                      /\ a = Field(m.sid) /\ b = NameField(n) /\ d = <<f>>
                      /\ Len(a) = INT_SIZE /\ Len(b) = NAME_SIZE /\ Len(d) = 1
                BY FieldType, NameFieldType, OneByte
            <4>4. b \o d \in Seq(Byte) /\ Len(b \o d) = NAME_SIZE + 1
                BY <4>3, ConcatProperties
            <4>5. Len(a \o (b \o d)) = INT_SIZE + (NAME_SIZE + 1)
                BY <4>3, <4>4, ConcatProperties
            <4>6. INT_SIZE + (NAME_SIZE + 1) = INT_SIZE + NAME_SIZE + 1
                BY SizeAssumption
            <4> QED
                BY <4>2, <4>3, <4>5, <4>6, Zenon
        <3>3. CASE m.r.op # "MOUNT" /\ m.r.op # "OPEN"
            <4>1. Part(m, 1) = Field(m.sid) /\ Asked = INT_SIZE
                BY <1>1, <1>4, <3>3 DEF Part, Asked
            <4> QED
                BY <1>3, <4>1
        <3> QED
            BY <3>1, <3>2, <3>3
    <2>2. Len(fields) + 1 = 1
        BY <1>1, <1>4
    <2> QED
        BY <2>1, <2>2, Zenon
<1>5. CASE j = 1
    <2>1. m.r.op \in {"CLOSE", "READ", "WRITE"}
        BY <1>1, <1>5 DEF Parts
    <2>2. Part(m, 2) = Field(m.r.fhandle) /\ Asked = INT_SIZE
        BY <1>1, <1>5, <2>1 DEF Part, Asked
    <2>3. Len(fields) + 1 = 2
        BY <1>1, <1>5
    <2> QED
        BY <1>3, <2>2, <2>3, Zenon
<1>6. CASE j = 2
    <2>1. m.r.op \in {"READ", "WRITE"}
        BY <1>1, <1>6 DEF Parts
    <2>2. Part(m, 3) = Field(m.r.len) /\ Asked = INT_SIZE
        BY <1>1, <1>6, <2>1 DEF Part, Asked
    <2>3. Len(fields) + 1 = 3
        BY <1>1, <1>6
    <2> QED
        BY <1>3, <2>2, <2>3, Zenon
<1>7. CASE j = 3
    <2>1. m.r.op = "WRITE"
        BY <1>1, <1>7 DEF Parts
    <2>2. Part(m, 4) = m.r.to_write /\ Part(m, 3) = Field(m.r.len)
        BY <2>1 DEF Part
    <2>3. fields[3] = Part(m, 3)
        BY <1>1, <1>7
    <2>4. Asked = Atoi(Field(m.r.len))
        BY <1>1, <1>7, <2>1, <2>2, <2>3 DEF Asked
    <2>5. Atoi(Field(m.r.len)) = m.r.len
        <3>1. PICK t \in Texts : t = m.r.to_write /\ m.r.len = Len(t)
            BY <1>2, <2>1
        <3> QED
            BY <3>1, WriteLength
    <2>6. Len(m.r.to_write) = m.r.len
        BY <1>2, <2>1
    <2>7. Len(fields) + 1 = 4
        BY <1>1, <1>7
    <2> QED
        BY <2>2, <2>4, <2>5, <2>6, <2>7, Zenon
<1> QED
    <2>1. PICK n \in 0 .. 4 : n = Parts(op)
        BY DEF Parts
    <2>2. j < n
        BY <1>1, <2>1
    <2> QED
        BY <1>4, <1>5, <1>6, <1>7, <2>2

\* main reads on in the first message.
LEMMA ReadingMain ==
    ASSUME TInv, NEW q \in Seq(Messages), Reading(q), \A k \in 1 .. Len(q) : CallType(q[k].c, q[k].r), MainRead
    PROVE  Reading(q)'
<1>1. PICK w, n, b : MainTakes(w, n, b)
    BY MainReads
<1>2. /\ w \in Nat \ {0} /\ w = Asked /\ op \in Ops /\ Len(fields) < Parts(op)
      /\ n \in Nat /\ n <= w /\ (n = w \/ n = Len(server_pipe)) /\ op' = op
      /\ server_pipe' = SubSeq(server_pipe, n + 1, Len(server_pipe))
      /\ b \in Seq(Byte) /\ b = buffer \o SubSeq(server_pipe, 1, n)
    BY <1>1, Zenon DEF MainTakes
<1>3. op # "none" /\ buffer = <<>> /\ q # <<>> /\ op = q[1].r.op
    BY DEF MainRead, Reading
<1>4. PICK m : m = q[1]
    OBVIOUS
<1>5. m.c \in Clients /\ m.sid \in Nat /\ CallType(m.c, m.r) /\ op = m.r.op
    BY <1>3, <1>4, QueueTail
<1>6. \A k \in 1 .. Len(fields) : fields[k] = Part(m, k)
    BY <1>3, <1>4 DEF Reading
<1>7. PICK t \in Seq(Byte) : server_pipe = Rest(m, Len(fields)) \o t /\ Stream(t, Tail(q))
    BY <1>3, <1>4 DEF Reading
<1>8. PICK j \in 0 .. 3 : j = Len(fields)
    <2>1. PICK i \in Nat : i = Len(fields)
        BY LenProperties DEF TInv, TypeOK
    <2>2. PICK x \in 0 .. 4 : x = Parts(op)
        BY DEF Parts
    <2>3. i < x
        BY <1>2, <2>1, <2>2
    <2>4. i \in 0 .. 3
        BY <2>3
    <2> QED
        BY <2>1, <2>4
<1>9. PICK x \in Seq(Byte) : x = Part(m, j + 1)
    <2>1. j + 1 \in 1 .. 4
        OBVIOUS
    <2> QED
        BY <1>5, <2>1, PartType
<1>10. PICK y \in Seq(Byte) : y = Rest(m, j + 1) /\ Rest(m, j) = x \o y
    <2>1. j + 1 \in 0 .. 4
        OBVIOUS
    <2> QED
        BY <1>5, <1>9, <2>1, RestStep
<1>11. Len(x) = w
    BY <1>2, <1>5, <1>6, <1>8, <1>9, AskedPart
<1>12. PICK z \in Seq(Byte) : z = y \o t
    BY ConcatProperties
<1>13. server_pipe = x \o z
    <2>1. x \o (y \o t) = (x \o y) \o t
        BY Regroup
    <2> QED
        BY <1>7, <1>8, <1>10, <1>12, <2>1, Zenon
<1>14. /\ Len(server_pipe) = w + Len(z) /\ SubSeq(server_pipe, 1, w) = x
       /\ SubSeq(server_pipe, w + 1, Len(server_pipe)) = z
    <2>1. /\ Len(x \o z) = Len(x) + Len(z) /\ SubSeq(x \o z, 1, Len(x)) = x
          /\ SubSeq(x \o z, Len(x) + 1, Len(x \o z)) = z
        BY SplitBytes, Zenon
    <2> QED
        BY <1>11, <1>13, <2>1, Zenon
<1>15. n = w
    <2>1. Len(z) \in Nat
        BY LenProperties
    <2> QED
        BY <1>2, <1>14, <2>1
<1>16. b = x /\ server_pipe' = z
    <2>1. b = <<>> \o x
        BY <1>2, <1>3, <1>14, <1>15, Zenon
    <2>2. <<>> \o x = x
        BY ConcatEmptySeq
    <2>3. server_pipe' = z
        BY <1>2, <1>14, <1>15, Zenon
    <2> QED
        BY <2>1, <2>2, <2>3, Zenon
<1>17. buffer' = <<>> /\ fields' = Append(fields, x)
    <2>1. Len(b) >= w
        BY <1>2, <1>11, <1>16
    <2> QED
        BY <1>1, <1>16, <2>1 DEF MainTakes
<1>18. PICK f : f = Append(fields, x)
    OBVIOUS
<1>19. Len(f) = j + 1 /\ \A k \in 1 .. Len(f) : f[k] = Part(m, k)
    <2>1. fields \in Seq(Seq(Byte))
        BY DEF TInv, TypeOK
    <2>2. Len(f) = j + 1 /\ f[j + 1] = x /\ \A k \in 1 .. j : f[k] = fields[k]
        BY <1>8, <1>18, <2>1, AppendProperties
    <2>3. ASSUME NEW k \in 1 .. j + 1
          PROVE  f[k] = Part(m, k)
        <3>1. CASE k = j + 1
            BY <1>9, <2>2, <3>1, Zenon
        <3>2. CASE k \in 1 .. j
            BY <1>6, <1>8, <2>2, <3>2
        <3> QED
            BY <3>1, <3>2
    <2> QED
        BY <2>2, <2>3
<1>20. server_pipe' = Rest(m, Len(f)) \o t
    BY <1>10, <1>12, <1>16, <1>19, Zenon
<1> QED
    BY <1>2, <1>3, <1>4, <1>7, <1>17, <1>18, <1>19, <1>20, Zenon DEF Reading

\* A handler that has all its fields leaves the stream of the messages behind.
LEMMA ReadingParsed ==
    ASSUME TInv, NEW q \in Seq(Messages), Reading(q), \A k \in 1 .. Len(q) : CallType(q[k].c, q[k].r),
           NEW o \in Ops, op = o, Parsed
    PROVE  /\ q # <<>> /\ o = q[1].r.op /\ Len(fields) = Parts(o) /\ \A k \in 1 .. Parts(o) : fields[k] = Part(q[1], k)
           /\ \A k \in 1 .. Parts(o) : k \in 1 .. 4
           /\ Handled(o) => Reading(Tail(q))'
<1>1. op # "none"
    BY DEF Ops, OpCode
<1>2. q # <<>> /\ o = q[1].r.op /\ buffer = <<>>
    BY <1>1 DEF Reading
<1>3. PICK m : m = q[1]
    OBVIOUS
<1>4. m.c \in Clients /\ m.sid \in Nat /\ CallType(m.c, m.r) /\ o = m.r.op
    BY <1>2, <1>3, QueueTail
<1>5. \A k \in 1 .. Len(fields) : fields[k] = Part(m, k)
    BY <1>1, <1>3 DEF Reading
<1>6. PICK t \in Seq(Byte) : server_pipe = Rest(m, Len(fields)) \o t /\ Stream(t, Tail(q))
    BY <1>1, <1>3 DEF Reading
<1>7. fields \in Seq(Seq(Byte)) /\ Len(fields) <= Parts(o)
    BY DEF TInv, TypeOK, MainType
<1>8. Len(fields) = Parts(o) \/ (o = "WRITE" /\ Len(fields) = 3 /\ Atoi(fields[3]) <= 0)
    BY <1>7, LayoutValues
<1>9. ASSUME o = "WRITE", Len(fields) = 3
      PROVE  ~(Atoi(fields[3]) <= 0)
    <2>1. fields[3] = Part(m, 3)
        BY <1>5, <1>9
    <2>2. Part(m, 3) = Field(m.r.len)
        BY <1>4, <1>9 DEF Part
    <2>3. PICK x \in Texts : m.r.len = Len(x)
        BY <1>4, <1>9, CallFields
    <2>4. PICK l \in Nat : l = m.r.len /\ l > 0 /\ Atoi(Field(l)) = l
        BY <2>3, WriteLength
    <2>5. Atoi(fields[3]) = l
        BY <2>1, <2>2, <2>4
    <2> QED
        BY <2>4, <2>5
<1>10. Len(fields) = Parts(o)
    BY <1>8, <1>9
<1>11. \A k \in 1 .. Parts(o) : k \in 1 .. 4
    BY DEF Parts
<1>12. server_pipe = t
    <2>1. Rest(m, Parts(m.r.op)) = <<>>
        BY <1>4, RestStep
    <2>2. server_pipe = <<>> \o t
        BY <1>4, <1>6, <1>10, <2>1, Zenon
    <2> QED
        BY <2>2, ConcatEmptySeq
<1>13. ASSUME Handled(o)
       PROVE  Reading(Tail(q))'
    <2>1. op' = "none" /\ server_pipe' = server_pipe /\ buffer' = buffer
        BY <1>13 DEF Handled
    <2> QED
        BY <1>2, <1>6, <1>12, <2>1, Zenon DEF Reading
<1> QED
    BY <1>2, <1>3, <1>5, <1>10, <1>11, <1>13, Zenon

(***************************************************************************)
(* What a step leaves alone.                                               *)
(***************************************************************************)
\* The variables of client c.
Same(c) ==
    /\ cpc'[c] = cpc[c] /\ session_id'[c] = session_id[c] /\ call'[c] = call[c] /\ got'[c] = got[c]
    /\ inbox'[c] = inbox[c] /\ done'[c] = done[c] /\ answer'[c] = answer[c]

\* A client that a step leaves alone keeps its part of the invariant:
LEMMA FreshSame ==
    ASSUME NEW c, Same(c)
    PROVE  Fresh(c)' = Fresh(c)
BY Zenon DEF Fresh, Same

\* what it waits for,
LEMMA ClientSame ==
    ASSUME NEW c \in Clients, Client(c), Same(c), \A i \in Slots : Serves(i, c) => Serves(i, c)'
    PROVE  Client(c)'
<1>1. Fresh(c)' = Fresh(c)
    BY FreshSame
<1>2. Answered(c) => Answered(c)'
    <2>1. SUFFICES ASSUME NEW r, NEW v, NEW d, AnsweredWith(c, r, v, d)
                   PROVE  AnsweredWith(c, r, v, d)'
        BY Zenon DEF Answered
    <2>2. /\ done'[c] = <<r>> /\ answer'[c] = <<[val |-> v, data |-> d]>> /\ Contract!Fits(call'[c][1], r)
          /\ d \in Seq(Byte)
          /\ IF call'[c][1].op = "READ" THEN (v = -1 /\ d = <<>>) \/ (v \in Nat /\ Len(d) = v) ELSE d = <<>>
          /\ v \in Nat \cup {-1} /\ Atoi(Field(v)) = v
        BY <2>1, Zenon DEF AnsweredWith, Same
    <2>3. call'[c][1].op = "MOUNT" => v = -1 \/ (v \in Slots /\ Serves(v, c)')
        BY <2>1, Zenon DEF AnsweredWith, Same
    <2>4. \/ cpc'[c] = "answer" /\ got'[c] = <<>> /\ inbox'[c] = Field(v) \o d
          \/ cpc'[c] = "answer" /\ got'[c] = Field(v) /\ inbox'[c] = d
          \/ cpc'[c] = "data" /\ v \in Nat /\ got'[c] = Field(v) /\ inbox'[c] = d
          \/ cpc'[c] = "data" /\ v \in Nat /\ got'[c] = Field(v) \o d /\ inbox'[c] = <<>>
        BY <2>1, Zenon DEF AnsweredWith, Same
    <2> QED
        BY <2>2, <2>3, <2>4, Zenon DEF AnsweredWith
<1>3. cpc'[c] = "out" => call'[c] = <<>> /\ Fresh(c)'
    BY <1>1, Zenon DEF Client, Same
<1>4. \A i : (i \in Slots /\ Serves(i, c)) => Serves(i, c)'
    OBVIOUS
<1>5. cpc'[c] = "in" => call'[c] = <<>> /\ Fresh(c)' /\ session_id'[c] \in Slots /\ Serves(session_id[c], c)'
    BY <1>1, <1>4, Zenon DEF Client, Same
<1>6. cpc'[c] \in {"answer", "data"} =>
          /\ call'[c][1].op # "MOUNT" => session_id'[c] \in Slots /\ Serves(session_id[c], c)'
          /\ (cpc'[c] = "answer" /\ Fresh(c)') \/ Answered(c)'
    BY <1>1, <1>2, <1>4, Zenon DEF Client, Same
<1>7. Serves(session_id[c], c)' => fhandler'[session_id'[c]] = c /\ (request'[session_id'[c]] # <<>> => request'[session_id'[c]][1].op # "UNMOUNT")
    BY Zenon DEF Serves, Same
<1> QED
    BY <1>3, <1>5, <1>6, <1>7, Zenon DEF Client, Serves

\* its message in the stream,
LEMMA QueuedSame ==
    ASSUME NEW m, Queued(m), Same(m.c), m.r.op # "MOUNT" => Serves(m.sid, m.c)'
    PROVE  Queued(m)'
<1>1. Fresh(m.c)' = Fresh(m.c)
    BY FreshSame
<1> QED
    BY <1>1, Zenon DEF Queued, Same

\* and its request with the session's worker.
LEMMA PostedSame ==
    ASSUME NEW q, NEW p, NEW i, Posted(q, i), request'[i] = request[i],
           Active(i) => /\ fhandler'[i] = fhandler[i] /\ Same(Caller(i))
                        /\ Absent(q, Caller(i)) => Absent(p, Caller(i))
    PROVE  Posted(p, i)'
<1>1. request'[i] # <<>> => request'[i] = <<request'[i][1]>>
    BY Zenon DEF Posted
<1>2. Active(i)' = Active(i)
    BY Zenon DEF Active
<1>3. SUFFICES ASSUME Active(i)
               PROVE  /\ Waits(p, Caller(i), request[i][1])'
                      /\ request'[i][1].op = "MOUNT" => fhandler'[i] = NoClient /\ request'[i][1].name = <<Caller(i)'>>
    BY <1>1, <1>2, Zenon DEF Posted
<1>4. PICK c : c = Caller(i)
    OBVIOUS
<1>5. Caller(i)' = c
    BY <1>3, <1>4, Zenon DEF Caller
<1>6. Same(c) /\ (Absent(q, c) => Absent(p, c))
    BY <1>3, <1>4
<1>7. Waits(q, c, request[i][1])
    BY <1>3, <1>4, Zenon DEF Posted
<1>8. Fresh(c)' = Fresh(c)
    BY <1>6, FreshSame
<1>9. Waits(p, c, request[i][1])'
    BY <1>6, <1>7, <1>8, Zenon DEF Waits, Same
<1>10. request[i][1].op = "MOUNT" => fhandler[i] = NoClient /\ request[i][1].name = <<c>>
    BY <1>3, <1>4, Zenon DEF Posted
<1>11. Waits(p, Caller(i), request[i][1])'
    BY <1>5, <1>9, Zenon DEF Waits, Fresh
<1> QED
    BY <1>3, <1>5, <1>10, <1>11, Zenon

\* The first message is taken from the queue.
LEMMA Dequeue ==
    ASSUME NEW q \in Seq(Messages), q # <<>>, Settled(q)
    PROVE  /\ Tail(q) \in Seq(Messages) /\ \A k \in 1 .. Len(Tail(q)) : Queued(Tail(q)[k]) /\ Tail(q)[k].c \in Clients
           /\ Queued(q[1]) /\ q[1].c \in Clients
           /\ Ordered(Tail(q))
           /\ \A c : Absent(q, c) => Absent(Tail(q), c)
           /\ q[1].r.op # "UNMOUNT" => Absent(Tail(q), q[1].c)
           /\ \A k \in 1 .. Len(Tail(q)) : Tail(q)[k].c = q[1].c => Tail(q)[k].r.op = "MOUNT"
           /\ Settled(Tail(q))
<1>1. PICK t \in Seq(Messages) : t = Tail(q)
    BY QueueTail
<1>2. /\ 1 \in 1 .. Len(q) /\ q[1].c \in Clients
      /\ \A k \in 1 .. Len(t) : t[k] = q[k + 1] /\ k + 1 \in 1 .. Len(q) /\ k + 1 # 1
      /\ \A k \in 1 .. Len(q) : k = 1 \/ (k - 1 \in 1 .. Len(t) /\ t[k - 1] = q[k])
    BY <1>1, QueueTail
<1>3. Ordered(q) /\ \A k \in 1 .. Len(q) : Queued(q[k])
    BY DEF Settled
<1>4. \A k \in 1 .. Len(t) : Queued(t[k]) /\ t[k].c \in Clients
    <2>1. ASSUME NEW k \in 1 .. Len(t)
          PROVE  Queued(t[k]) /\ t[k].c \in Clients
        <3>1. t[k] \in Messages
            BY ElementOfSeq
        <3>2. t[k].c \in Clients
            BY <3>1 DEF Messages
        <3>3. Queued(t[k])
            BY <1>2, <1>3, Zenon
        <3> QED
            BY <3>2, <3>3
    <2> QED
        BY <2>1
<1>5. Ordered(t)
    <2>1. ASSUME NEW j \in 1 .. Len(t), NEW k \in 1 .. Len(t), j < k, t[j].c = t[k].c
          PROVE  t[j].r.op = "UNMOUNT" /\ t[k].r.op = "MOUNT"
        <3>1. j + 1 \in 1 .. Len(q) /\ k + 1 \in 1 .. Len(q) /\ t[j] = q[j + 1] /\ t[k] = q[k + 1]
            BY <1>2
        <3>2. j + 1 < k + 1
            BY <2>1
        <3>3. q[j + 1].c = q[k + 1].c
            BY <2>1, <3>1
        <3>4. q[j + 1].r.op = "UNMOUNT" /\ q[k + 1].r.op = "MOUNT"
            BY <1>3, <3>1, <3>2, <3>3, Zenon DEF Ordered
        <3> QED
            BY <3>1, <3>4
    <2> QED
        BY <2>1, Zenon DEF Ordered
<1>6. \A c : Absent(q, c) => Absent(t, c)
    BY <1>2 DEF Absent
<1>7. ASSUME NEW k \in 1 .. Len(t), t[k].c = q[1].c
      PROVE  q[1].r.op = "UNMOUNT" /\ t[k].r.op = "MOUNT"
    <2>1. k + 1 \in 1 .. Len(q) /\ t[k] = q[k + 1]
        BY <1>2
    <2>2. 1 < k + 1
        OBVIOUS
    <2>3. q[1].c = q[k + 1].c
        BY <1>7, <2>1
    <2>4. q[1].r.op = "UNMOUNT" /\ q[k + 1].r.op = "MOUNT"
        BY <1>2, <1>3, <2>1, <2>2, <2>3, Zenon DEF Ordered
    <2> QED
        BY <2>1, <2>4
<1>8. q[1].r.op # "UNMOUNT" => Absent(t, q[1].c)
    BY <1>7, Zenon DEF Absent
<1>9. \A i \in Slots : Posted(t, i)
    BY <1>6, Zenon DEF Settled, Posted, Waits
<1>10. Settled(t)
    BY <1>4, <1>5, <1>9 DEF Settled
<1> QED
    BY <1>1, <1>2, <1>3, <1>4, <1>5, <1>6, <1>7, <1>8, <1>9, <1>10, Zenon

\* A step of client c, or an answer to it, when no message of c is left and the request of c,
\* if there is one, is taken.
LEMMA OwnSlot ==
    ASSUME NEW q \in Seq(Messages), Settled(q), NEW c \in Clients, Absent(q, c),
           \A d \in Clients : d # c => Same(d),
           \A i \in Slots, d \in Clients : d # c /\ Serves(i, d) => Serves(i, d)',
           \A i \in Slots : \/ request'[i] = <<>>
                            \/ /\ request'[i] = request[i] /\ fhandler'[i] = fhandler[i]
                               /\ Active(i) => Caller(i) # c,
           Free', Client(c)'
    PROVE  Settled(q)'
<1>1. \A k \in 1 .. Len(q) : Queued(q[k])'
    <2>1. ASSUME NEW k \in 1 .. Len(q)
          PROVE  Queued(q[k])'
        <3>1. q[k] \in Messages
            BY ElementOfSeq
        <3>2. q[k].c \in Clients /\ q[k].c # c
            BY <3>1 DEF Messages, Absent
        <3>3. Queued(q[k]) /\ Same(q[k].c)
            BY <3>2 DEF Settled
        <3>4. q[k].r.op # "MOUNT" => Serves(q[k].sid, q[k].c)'
            BY <3>2, <3>3, Zenon DEF Queued
        <3> QED
            BY <3>3, <3>4, QueuedSame
    <2> QED
        BY <2>1
<1>2. Ordered(q)'
    BY Zenon DEF Settled, Ordered
<1>3. ASSUME NEW i \in Slots, Active(i)'
      PROVE  /\ Active(i) /\ Caller(i)' = Caller(i) /\ Caller(i) # c
             /\ request'[i] = request[i] /\ fhandler'[i] = fhandler[i]
    <2>1. request'[i] # <<>>
        BY <1>3, Zenon DEF Active
    <2>2. request'[i] = request[i] /\ fhandler'[i] = fhandler[i] /\ (Active(i) => Caller(i) # c)
        BY <2>1
    <2> QED
        BY <1>3, <2>2, Zenon DEF Active, Caller
<1>4. Single'
    <2>1. Single
        BY DEF Settled
    <2> QED
        BY <1>3, <2>1, Zenon DEF Single
<1>5. \A i \in Slots : Posted(q, i)'
    <2>1. ASSUME NEW i \in Slots
          PROVE  Posted(q, i)'
        <3>1. CASE request'[i] = <<>>
            BY <3>1, Zenon DEF Posted, Active
        <3>2. CASE request'[i] # <<>>
            <4>1. request'[i] = request[i] /\ Posted(q, i)
                BY <3>2 DEF Settled
            <4>2. ASSUME Active(i)
                  PROVE  fhandler'[i] = fhandler[i] /\ Same(Caller(i))
                <5>1. Active(i)'
                    BY <4>1, <4>2, Zenon DEF Active
                <5>2. Caller(i) \in Clients
                    BY <4>1, <4>2, Zenon DEF Posted, Waits
                <5> QED
                    BY <1>3, <5>1, <5>2
            <4> QED
                BY <4>1, <4>2, PostedSame
        <3> QED
            BY <3>1, <3>2
    <2> QED
        BY <2>1
<1>6. \A d \in Clients : Client(d)'
    <2>1. ASSUME NEW d \in Clients, d # c
          PROVE  Client(d)'
        <3>1. Client(d) /\ Same(d)
            BY <2>1 DEF Settled
        <3>2. \A i \in Slots : Serves(i, d) => Serves(i, d)'
            BY <2>1
        <3> QED
            BY <3>1, <3>2, ClientSame
    <2> QED
        BY <2>1
<1> QED
    BY <1>1, <1>2, <1>4, <1>5, <1>6, Zenon DEF Settled

\* The same when the sessions stay as they are.
LEMMA Own ==
    ASSUME NEW q \in Seq(Messages), Settled(q), NEW c \in Clients, Absent(q, c),
           UNCHANGED <<fhandler, request, free_sessions>>,
           \A d \in Clients : d # c => Same(d), \A i \in Slots : Active(i) => Caller(i) # c, Client(c)'
    PROVE  Settled(q)'
<1>1. fhandler' = fhandler /\ request' = request /\ free_sessions' = free_sessions
    OBVIOUS
<1>2. Free'
    BY <1>1, Zenon DEF Settled, Free
<1>3. \A i \in Slots, d \in Clients : d # c /\ Serves(i, d) => Serves(i, d)'
    BY <1>1, Zenon DEF Serves
<1> QED
    BY <1>1, <1>2, <1>3, OwnSlot

(***************************************************************************)
(* Every step keeps the messages and the clients together.                 *)
(***************************************************************************)
LEMMA SettledSent ==
    ASSUME TInv, NEW q \in Seq(Messages), Settled(q), NEW c \in Clients, NEW m, Send(c, m)
    PROVE  Settled(Append(q, m))'
<1>1. /\ m \in Messages /\ m.c = c /\ CallType(c, m.r)
      /\ IF m.r.op = "MOUNT"
         THEN cpc[c] = "out" /\ m.sid = 0 /\ inbox' = [inbox EXCEPT ![c] = <<>>]
         ELSE cpc[c] = "in" /\ m.sid = session_id[c] /\ inbox' = inbox
      /\ IF m.r.op = "UNMOUNT"
         THEN cpc' = [cpc EXCEPT ![c] = "out"] /\ call' = call
         ELSE cpc' = [cpc EXCEPT ![c] = "answer"] /\ call' = [call EXCEPT ![c] = <<m.r>>]
      /\ fhandler' = fhandler /\ request' = request /\ session_id' = session_id /\ got' = got
      /\ done' = done /\ answer' = answer /\ free_sessions' = free_sessions
    BY Zenon DEF Send, tableV
<1>2. /\ cpc \in [Clients -> {"out", "in", "answer", "data"}] /\ inbox \in [Clients -> Seq(Byte)]
      /\ call = [d \in Clients |-> call[d]]
    BY DEF TInv, TypeOK, Shapes
<1>3. \A d \in Clients : d # c => Same(d)
    <2>1. ASSUME NEW d \in Clients, d # c
          PROVE  cpc'[d] = cpc[d] /\ inbox'[d] = inbox[d] /\ call'[d] = call[d]
        BY <1>1, <1>2, <2>1
    <2> QED
        BY <1>1, <2>1, Zenon DEF Same
<1>4. /\ cpc'[c] = IF m.r.op = "UNMOUNT" THEN "out" ELSE "answer"
      /\ call'[c] = IF m.r.op = "UNMOUNT" THEN call[c] ELSE <<m.r>>
      /\ inbox'[c] = IF m.r.op = "MOUNT" THEN <<>> ELSE inbox[c]
    BY <1>1, <1>2
<1>5. Client(c)
    BY DEF Settled
<1>6. cpc[c] \in {"out", "in"} /\ Fresh(c) /\ call[c] = <<>>
    BY <1>1, <1>5 DEF Client
<1>7. Fresh(c)'
    <2>1. done'[c] = <<>> /\ answer'[c] = <<>> /\ got'[c] = <<>> /\ inbox'[c] = <<>>
        BY <1>1, <1>4, <1>6 DEF Fresh
    <2> QED
        BY <2>1 DEF Fresh
<1>8. m.r.op # "MOUNT" => m.sid \in Slots /\ Serves(m.sid, c)
    BY <1>1, <1>5 DEF Client
<1>9. m.sid \in Slots
    <2>1. 0 \in Slots
        BY SizeAssumption DEF Slots
    <2> QED
        BY <1>1, <1>8, <2>1
<1>10. PICK u \in Seq(Messages) : u = Append(q, m)
    BY <1>1, QueueAppend
<1>11. PICK l \in Nat : l = Len(q)
    BY LenProperties
<1>12. /\ u[l + 1] = m /\ l + 1 \in 1 .. Len(u) /\ \A k \in 1 .. l : u[k] = q[k] /\ k \in 1 .. Len(u)
       /\ \A k \in 1 .. Len(u) : k \in 1 .. l \/ k = l + 1
    BY <1>1, <1>10, <1>11, QueueAppend
<1>13. ASSUME NEW k \in 1 .. l
       PROVE  /\ Queued(q[k]) /\ q[k].c \in Clients
              /\ q[k].c = c => q[k].r.op = "UNMOUNT" /\ m.r.op = "MOUNT"
    <2>1. q[k] \in Messages /\ Queued(q[k])
        BY <1>11, ElementOfSeq DEF Settled
    <2>2. q[k].c \in Clients
        BY <2>1 DEF Messages
    <2>3. ASSUME q[k].c = c
          PROVE  q[k].r.op = "UNMOUNT" /\ m.r.op = "MOUNT"
        <3>1. cpc[c] # "answer"
            BY <1>6
        <3>2. q[k].r.op = "UNMOUNT" /\ cpc[c] = "out"
            BY <2>1, <2>3, <3>1, Zenon DEF Queued
        <3> QED
            BY <1>1, <3>2
    <2> QED
        BY <2>1, <2>2, <2>3
<1>14. ASSUME NEW k \in 1 .. Len(u)
       PROVE  Queued(u[k])'
    <2>1. CASE k \in 1 .. l
        <3>1. PICK x : x = q[k]
            OBVIOUS
        <3>2. Queued(x) /\ x.c \in Clients /\ u[k] = x
            BY <1>12, <1>13, <2>1, <3>1
        <3>3. CASE x.c # c
            <4>1. Same(x.c)
                BY <1>3, <3>2, <3>3
            <4>2. x.r.op # "MOUNT" => Serves(x.sid, x.c)'
                BY <1>1, <3>2, Zenon DEF Queued, Serves
            <4>3. Queued(x)'
                BY <3>2, <4>1, <4>2, QueuedSame
            <4> QED
                BY <3>2, <4>3, Zenon
        <3>4. CASE x.c = c
            <4>1. x.r.op = "UNMOUNT" /\ m.r.op = "MOUNT"
                BY <1>13, <2>1, <3>1, <3>4
            <4>2. x.r.op # "MOUNT" /\ m.r.op # "UNMOUNT"
                BY <4>1
            <4>3. x.sid \in Slots /\ CallType(x.c, x.r) /\ Serves(x.sid, x.c)'
                BY <1>1, <3>2, <4>2, Zenon DEF Queued, Serves
            <4>4. cpc'[x.c] = "answer" /\ call'[x.c] = <<m.r>>
                BY <1>4, <3>4, <4>2
            <4>5. call'[x.c][1].op = "MOUNT"
                BY <4>1, <4>4
            <4>6. Fresh(x.c)'
                BY <1>7, <3>4, Zenon
            <4>7. Queued(x)'
                BY <4>1, <4>3, <4>4, <4>5, <4>6, Zenon DEF Queued
            <4> QED
                BY <3>2, <4>7, Zenon
        <3> QED
            BY <3>3, <3>4
    <2>2. CASE k = l + 1
        <3>1. u[k] = m
            BY <1>12, <2>2
        <3>2. m.r.op # "UNMOUNT" => cpc'[m.c] = "answer" /\ call'[m.c] = <<m.r>> /\ Fresh(m.c)'
            BY <1>1, <1>4, <1>7, Zenon
        <3>3. m.r.op = "UNMOUNT" => cpc'[m.c] = "out"
            BY <1>1, <1>4, Zenon
        <3>4. m.r.op # "MOUNT" => Serves(m.sid, m.c)'
            BY <1>1, <1>8, Zenon DEF Serves
        <3>5. Queued(m)'
            BY <1>1, <1>9, <3>2, <3>3, <3>4, Zenon DEF Queued
        <3> QED
            BY <3>1, <3>5, Zenon
    <2> QED
        BY <1>12, <2>1, <2>2
<1>15. Ordered(u)'
    <2>1. ASSUME NEW j \in 1 .. Len(u), NEW k \in 1 .. Len(u), j < k, u[j].c = u[k].c
          PROVE  u[j].r.op = "UNMOUNT" /\ u[k].r.op = "MOUNT"
        <3>1. CASE k \in 1 .. l
            <4>1. j \in 1 .. l
                BY <2>1, <3>1
            <4>2. u[j] = q[j] /\ u[k] = q[k] /\ j \in 1 .. Len(q) /\ k \in 1 .. Len(q)
                BY <1>11, <1>12, <3>1, <4>1
            <4>3. q[j].c = q[k].c
                BY <2>1, <4>2
            <4>4. Ordered(q)
                BY DEF Settled
            <4>5. q[j].r.op = "UNMOUNT" /\ q[k].r.op = "MOUNT"
                BY <2>1, <4>2, <4>3, <4>4, Zenon DEF Ordered
            <4> QED
                BY <4>2, <4>5
        <3>2. CASE k = l + 1
            <4>1. j \in 1 .. l /\ u[k] = m /\ u[j] = q[j]
                <5>1. j \in 1 .. l
                    BY <2>1, <3>2
                <5> QED
                    BY <1>12, <3>2, <5>1
            <4>2. q[j].c = c
                BY <1>1, <2>1, <4>1
            <4> QED
                BY <1>13, <4>1, <4>2
        <3> QED
            BY <1>12, <3>1, <3>2
    <2> QED
        BY <2>1, Zenon DEF Ordered
<1>16. Single' /\ Free'
    BY <1>1, Zenon DEF Settled, Single, Free, Active, Caller
<1>17. \A i \in Slots : Posted(u, i)'
    <2>1. ASSUME NEW i \in Slots
          PROVE  Posted(u, i)'
        <3>1. Posted(q, i)
            BY DEF Settled
        <3>2. ASSUME Active(i)
              PROVE  Same(Caller(i)) /\ Absent(u, Caller(i))
            <4>1. Caller(i) \in Clients /\ cpc[Caller(i)] = "answer" /\ Absent(q, Caller(i))
                BY <3>1, <3>2, Zenon DEF Posted, Waits
            <4>2. PICK d \in Clients : d = Caller(i)
                BY <4>1
            <4>3. d # c /\ Absent(q, d)
                BY <1>6, <4>1, <4>2
            <4>4. Absent(u, d)
                BY <1>1, <1>11, <1>12, <4>3 DEF Absent
            <4> QED
                BY <1>3, <4>2, <4>3, <4>4
        <3>3. request'[i] = request[i] /\ fhandler'[i] = fhandler[i]
            BY <1>1
        <3> QED
            BY <3>1, <3>2, <3>3, PostedSame
    <2> QED
        BY <2>1
<1>18. \A i \in Slots, d \in Clients : Serves(i, d) => Serves(i, d)'
    BY <1>1, Zenon DEF Serves
<1>19. \A d \in Clients : Client(d)'
    <2>1. ASSUME NEW d \in Clients, d # c
          PROVE  Client(d)'
        <3>1. Client(d) /\ Same(d)
            BY <1>3, <2>1 DEF Settled
        <3> QED
            BY <1>18, <3>1, ClientSame
    <2>2. Client(c)'
        <3>1. CASE m.r.op = "UNMOUNT"
            <4>1. cpc'[c] = "out" /\ call'[c] = <<>>
                BY <1>4, <1>6, <3>1
            <4>2. "out" # "in" /\ "out" \notin {"answer", "data"}
                OBVIOUS
            <4> QED
                BY <1>7, <4>1, <4>2, Zenon DEF Client
        <3>2. CASE m.r.op # "UNMOUNT"
            <4>1. cpc'[c] = "answer" /\ call'[c] = <<m.r>>
                BY <1>4, <3>2
            <4>2. call'[c][1] = m.r
                BY <4>1
            <4>3. m.r.op # "MOUNT" => session_id'[c] \in Slots /\ Serves(session_id[c], c)'
                BY <1>1, <1>8, <1>18, Zenon
            <4>4. call'[c][1].op # "MOUNT" => (session_id[c] \in Slots /\ Serves(session_id[c], c))'
                BY <1>1, <4>2, <4>3, Zenon DEF Serves
            <4>5. "answer" # "in" /\ "answer" # "out"
                OBVIOUS
            <4> QED
                BY <1>7, <4>1, <4>4, <4>5, Zenon DEF Client, Serves
        <3> QED
            BY <3>1, <3>2
    <2> QED
        BY <2>1, <2>2
<1>20. Settled(u)'
    BY <1>14, <1>15, <1>16, <1>17, <1>19, Zenon DEF Settled
<1> QED
    BY <1>10, <1>20, Zenon

\* A call that is answered is not in the stream and not with a worker.
LEMMA AnsweredAlone ==
    ASSUME NEW q \in Seq(Messages), Settled(q), NEW c \in Clients, Answered(c)
    PROVE  Absent(q, c) /\ \A i \in Slots : Active(i) => Caller(i) # c
<1>1. ~Fresh(c)
    <2>1. PICK p, v, d : AnsweredWith(c, p, v, d)
        BY DEF Answered
    <2>2. PICK w : w = <<p>>
        OBVIOUS
    <2>3. done[c] = w
        BY <2>1, <2>2, Zenon DEF AnsweredWith
    <2>4. w # <<>>
        BY <2>2
    <2> QED
        BY <2>3, <2>4, Zenon DEF Fresh
<1>2. cpc[c] # "out"
    BY DEF Answered, AnsweredWith
<1>3. ASSUME NEW k \in 1 .. Len(q)
      PROVE  q[k].c # c
    <2>1. Queued(q[k])
        BY DEF Settled
    <2> QED
        BY <1>1, <1>2, <2>1, Zenon DEF Queued
<1>4. ASSUME NEW i \in Slots, Active(i)
      PROVE  Caller(i) # c
    <2>1. Posted(q, i)
        BY DEF Settled
    <2> QED
        BY <1>1, <1>4, <2>1, Zenon DEF Posted, Waits
<1> QED
    BY <1>3, <1>4, Zenon DEF Absent

\* The number and the bytes of an answer, apart again.
LEMMA AnswerPieces ==
    ASSUME NEW v \in Nat \cup {-1}, NEW d \in Seq(Byte)
    PROVE  /\ Field(v) \in Seq(Byte) /\ Len(Field(v)) = INT_SIZE /\ Len(Field(v) \o d) = INT_SIZE + Len(d)
           /\ Field(v) \o d \in Seq(Byte) /\ Len(d) \in Nat /\ Field(v) # <<>>
           /\ SubSeq(Field(v) \o d, 1, INT_SIZE) = Field(v)
           /\ SubSeq(Field(v) \o d, INT_SIZE + 1, Len(Field(v) \o d)) = d
           /\ Field(v) \o <<>> = Field(v) /\ <<>> \o Field(v) = Field(v)
           /\ SubSeq(Field(v), 1, INT_SIZE) = Field(v) /\ SubSeq(Field(v), INT_SIZE + 1, Len(Field(v))) = <<>>
           /\ SubSeq(d, 1, Len(d)) = d /\ SubSeq(d, Len(d) + 1, Len(d)) = <<>>
<1>1. PICK f \in Seq(Byte) : f = Field(v)
    BY FieldType
<1>2. Len(f) = INT_SIZE
    BY <1>1, FieldType
<1>3. PICK e \in Seq(Byte) : e = <<>>
    BY EmptySeq
<1>4. \A s \in Seq(Byte) : s \o e = s /\ e \o s = s /\ Len(s) \in Nat
    BY <1>3
<1>5. /\ SubSeq(f \o d, 1, INT_SIZE) = f /\ SubSeq(f \o d, INT_SIZE + 1, Len(f \o d)) = d
      /\ Len(f \o d) = INT_SIZE + Len(d) /\ f \o d \in Seq(Byte)
    BY <1>2, SplitBytes, Zenon
<1>6. \A s \in Seq(Byte) : SubSeq(s, 1, Len(s)) = s /\ SubSeq(s, Len(s) + 1, Len(s)) = e
    <2>1. ASSUME NEW s \in Seq(Byte)
          PROVE  SubSeq(s, 1, Len(s)) = s /\ SubSeq(s, Len(s) + 1, Len(s)) = e
        <3>1. SubSeq(s \o e, 1, Len(s)) = s /\ SubSeq(s \o e, Len(s) + 1, Len(s \o e)) = e
            BY SplitBytes, Zenon
        <3> QED
            BY <1>4, <3>1, Zenon
    <2> QED
        BY <2>1
<1>7. f # <<>>
    BY <1>2, SizeAssumption
<1> QED
    BY <1>1, <1>2, <1>3, <1>4, <1>5, <1>6, <1>7, Zenon

\* What a client asks for, and has, while its answer is on the way.
LEMMA AnswerStage ==
    ASSUME TInv, NEW c \in Clients, NEW p, NEW v, NEW d, AnsweredWith(c, p, v, d)
    PROVE  /\ Want(c) \in Nat \cup {-1} /\ Have(c) \in Nat
           /\ cpc[c] = "answer" => Want(c) = (IF call[c][1].op = "WRITE" THEN call[c][1].len ELSE INT_SIZE)
           /\ call[c][1].op = "WRITE" => call[c][1].len >= INT_SIZE
           /\ cpc[c] = "data" => Want(c) = v /\ call[c][1].op = "READ"
           /\ cpc[c] = "answer" /\ got[c] = <<>> => Have(c) = 0
           /\ cpc[c] = "answer" /\ got[c] = Field(v) => Have(c) = INT_SIZE
           /\ cpc[c] = "data" /\ got[c] = Field(v) => Have(c) = 0
           /\ cpc[c] = "data" /\ got[c] = Field(v) \o d => Have(c) = v
<1>1. /\ d \in Seq(Byte) /\ v \in Nat \cup {-1} /\ Atoi(Field(v)) = v
      /\ \/ cpc[c] = "answer" /\ got[c] = <<>> /\ inbox[c] = Field(v) \o d
         \/ cpc[c] = "answer" /\ got[c] = Field(v) /\ inbox[c] = d
         \/ cpc[c] = "data" /\ v \in Nat /\ got[c] = Field(v) /\ inbox[c] = d
         \/ cpc[c] = "data" /\ v \in Nat /\ got[c] = Field(v) \o d /\ inbox[c] = <<>>
    BY Zenon DEF AnsweredWith
<1>2. cpc[c] \in {"answer", "data"}
    BY <1>1
<1>3. CallType(c, call[c][1]) /\ (cpc[c] = "data" => call[c][1].op = "READ")
    BY <1>2 DEF TInv, ClientType
<1>4. call[c][1].op = "WRITE" => call[c][1].len \in Nat /\ call[c][1].len >= INT_SIZE
    <2>1. PICK r : r = call[c][1]
        OBVIOUS
    <2>2. r.op = "WRITE" => r.to_write \in Texts /\ r.len = Len(r.to_write)
        BY <1>3, <2>1, CallFields
    <2>3. \A t \in Texts : Len(t) \in Nat /\ Len(t) >= INT_SIZE
        BY WriteLength
    <2> QED
        BY <2>1, <2>2, <2>3, Zenon
<1>5. call[c][1].op = "READ" /\ v \in Nat => Len(d) = v
    BY DEF AnsweredWith
<1>6. PICK f, g : f = Field(v) /\ g = Field(v) \o d
    OBVIOUS
<1>7. /\ Len(f) = INT_SIZE /\ Len(g) = INT_SIZE + Len(d) /\ Len(d) \in Nat
      /\ SubSeq(g, 1, INT_SIZE) = f /\ SubSeq(f, 1, INT_SIZE) = f
    BY <1>1, <1>6, AnswerPieces, Zenon
<1>8. CASE cpc[c] = "answer"
    <2>1. Want(c) = (IF call[c][1].op = "WRITE" THEN call[c][1].len ELSE INT_SIZE)
        BY <1>8 DEF Want
    <2>2. Have(c) = Len(got[c])
        BY <1>8 DEF Have
    <2>3. got[c] = <<>> \/ got[c] = f
        BY <1>1, <1>6, <1>8
    <2>4. /\ got[c] = <<>> => Have(c) = 0
          /\ got[c] = f => Have(c) = INT_SIZE
        BY <1>7, <2>2
    <2> QED
        BY <1>4, <1>6, <1>8, <2>1, <2>3, <2>4, SizeAssumption
<1>9. CASE cpc[c] = "data"
    <2>1. Want(c) = Atoi(SubSeq(got[c], 1, INT_SIZE)) /\ Have(c) = Len(got[c]) - INT_SIZE
        BY <1>9 DEF Want, Have
    <2>2. v \in Nat /\ (got[c] = f \/ got[c] = g)
        BY <1>1, <1>6, <1>9
    <2>3. Want(c) = v
        BY <1>1, <1>6, <1>7, <2>1, <2>2, Zenon
    <2>4. Len(d) = v
        BY <1>3, <1>5, <1>9, <2>2
    <2>5. /\ got[c] = f => Have(c) = 0
          /\ got[c] = g => Have(c) = v
        BY <1>7, <2>1, <2>4, SizeAssumption
    <2> QED
        BY <1>3, <1>4, <1>6, <1>9, <2>2, <2>3, <2>5
<1> QED
    BY <1>2, <1>8, <1>9

\* A client that has bytes of an answer, or finds some, has been answered.
LEMMA AnsweredNow ==
    ASSUME NEW q, Settled(q), NEW c \in Clients, cpc[c] \in {"answer", "data"}, ~Fresh(c)
    PROVE  Answered(c)
BY Zenon DEF Settled, Client

\* A read of slait finds the whole number, or all the data.
LEMMA Received ==
    ASSUME TInv, NEW c \in Clients, NEW p, NEW v, NEW d, AnsweredWith(c, p, v, d), Receive(c)
    PROVE  \/ cpc[c] = "answer" /\ got'[c] = Field(v) /\ inbox'[c] = d
           \/ cpc[c] = "data" /\ v \in Nat /\ got'[c] = Field(v) \o d /\ inbox'[c] = <<>>
<1>1. /\ d \in Seq(Byte) /\ v \in Nat \cup {-1}
      /\ IF call[c][1].op = "READ" THEN (v = -1 /\ d = <<>>) \/ (v \in Nat /\ Len(d) = v)
                                   ELSE d = <<>>
      /\ \/ cpc[c] = "answer" /\ got[c] = <<>> /\ inbox[c] = Field(v) \o d
         \/ cpc[c] = "answer" /\ got[c] = Field(v) /\ inbox[c] = d
         \/ cpc[c] = "data" /\ v \in Nat /\ got[c] = Field(v) /\ inbox[c] = d
         \/ cpc[c] = "data" /\ v \in Nat /\ got[c] = Field(v) \o d /\ inbox[c] = <<>>
    BY Zenon DEF AnsweredWith
<1>2. PICK w \in Nat \cup {-1}, h \in Nat : w = Want(c) /\ h = Have(c)
    BY AnswerStage
<1>3. PICK l \in Nat : l = Len(d)
    BY <1>1, LenProperties
<1>4. /\ got \in [Clients -> Seq(Byte)] /\ inbox \in [Clients -> Seq(Byte)]
    BY DEF TInv, TypeOK
<1>5. PICK b \in Seq(Byte), g \in Seq(Byte) : b = inbox[c] /\ g = got[c]
    BY <1>4
<1>6. h < w /\ b # <<>>
    BY <1>2, <1>5 DEF Receive
<1>7. PICK n : n = Min({w, Len(b)})
    OBVIOUS
<1>8. got'[c] = g \o SubSeq(b, 1, n) /\ inbox'[c] = SubSeq(b, n + 1, Len(b))
    <2>1. /\ got' = [got EXCEPT ![c] = @ \o SubSeq(inbox[c], 1, n)]
          /\ inbox' = [inbox EXCEPT ![c] = SubSeq(@, n + 1, Len(@))]
        BY <1>2, <1>5, <1>7 DEF Receive
    <2> QED
        BY <1>4, <1>5, <2>1, Zenon
<1>9. n = IF w <= Len(b) THEN w ELSE Len(b)
    BY <1>5, <1>7, MinPair, LenProperties
<1>10. CASE cpc[c] = "answer" /\ got[c] = <<>> /\ inbox[c] = Field(v) \o d
    <2>1. b = Field(v) \o d
        BY <1>5, <1>10
    <2>2. /\ Len(b) = INT_SIZE + l /\ <<>> \o Field(v) = Field(v)
          /\ SubSeq(b, 1, INT_SIZE) = Field(v) /\ SubSeq(b, INT_SIZE + 1, Len(b)) = d
        BY <1>1, <1>3, <2>1, AnswerPieces, Zenon
    <2>3. \/ w = INT_SIZE
          \/ w >= INT_SIZE /\ l = 0
        BY <1>1, <1>2, <1>3, <1>10, AnswerStage
    <2>4. n = INT_SIZE
        BY <1>9, <2>2, <2>3, SizeAssumption
    <2>5. got'[c] = Field(v) /\ inbox'[c] = d
        BY <1>5, <1>8, <1>10, <2>2, <2>4, Zenon
    <2> QED
        BY <1>10, <2>5
<1>11. CASE cpc[c] = "answer" /\ got[c] = Field(v) /\ inbox[c] = d
    <2>1. h = INT_SIZE
        BY <1>2, <1>11, AnswerStage
    <2>2. call[c][1].op = "WRITE"
        BY <1>2, <1>6, <1>11, <2>1, AnswerStage
    <2> QED
        BY <1>1, <1>5, <1>6, <1>11, <2>2
<1>12. CASE cpc[c] = "data" /\ v \in Nat /\ got[c] = Field(v) /\ inbox[c] = d
    <2>1. w = v /\ call[c][1].op = "READ"
        BY <1>2, <1>12, AnswerStage
    <2>2. l = v /\ Len(b) = l
        BY <1>1, <1>3, <1>5, <1>12, <2>1
    <2>3. n = l
        BY <1>9, <2>1, <2>2
    <2>4. SubSeq(b, 1, n) = d /\ SubSeq(b, n + 1, Len(b)) = <<>>
        BY <1>1, <1>3, <1>5, <1>12, <2>3, AnswerPieces, Zenon
    <2>5. got'[c] = Field(v) \o d /\ inbox'[c] = <<>>
        BY <1>5, <1>8, <1>12, <2>4, Zenon
    <2> QED
        BY <1>12, <2>5
<1>13. CASE cpc[c] = "data" /\ v \in Nat /\ got[c] = Field(v) \o d /\ inbox[c] = <<>>
    BY <1>5, <1>6, <1>13
<1> QED
    BY <1>1, <1>10, <1>11, <1>12, <1>13

\* A step that changes no client, gives slots at most to clients that had none, and posts at most
\* the call of a client.  A slot is taken from a client only by its unmount.
LEMMA SettledStays ==
    ASSUME NEW q \in Seq(Messages), Settled(q), UNCHANGED <<clientV, inbox, historyV>>,
           \A d \in Clients : \/ \A i \in Slots : Serves(i, d) => Serves(i, d)'
                              \/ Client(d)' /\ \A k \in 1 .. Len(q) : q[k].c = d => q[k].r.op = "MOUNT",
           \A i \in Slots : \/ request'[i] = request[i] /\ (Active(i) => fhandler'[i] = fhandler[i])
                            \/ Posted(q, i)',
           Single', Free'
    PROVE  Settled(q)'
<1>1. /\ inbox' = inbox /\ done' = done /\ answer' = answer
      /\ cpc' = cpc /\ session_id' = session_id /\ call' = call /\ got' = got
    BY DEF clientV, historyV
<1>2. \A d \in Clients : Same(d)
    BY <1>1, Zenon DEF Same
<1>3. \A k \in 1 .. Len(q) : Queued(q[k])'
    <2>1. ASSUME NEW k \in 1 .. Len(q)
          PROVE  Queued(q[k])'
        <3>1. q[k] \in Messages /\ Queued(q[k])
            BY ElementOfSeq DEF Settled
        <3>2. PICK m : m = q[k]
            OBVIOUS
        <3>3. Queued(m) /\ m.c \in Clients /\ Same(m.c)
            BY <1>2, <3>1, <3>2 DEF Messages
        <3>4. m.r.op # "MOUNT" => m.sid \in Slots /\ Serves(m.sid, m.c)
            BY <3>3, Zenon DEF Queued
        <3>5. m.r.op # "MOUNT" => Serves(m.sid, m.c)'
            BY <3>2, <3>3, <3>4
        <3>6. Queued(m)'
            BY <3>3, <3>5, QueuedSame
        <3> QED
            BY <3>2, <3>6, Zenon
    <2> QED
        BY <2>1
<1>4. Ordered(q)'
    BY Zenon DEF Settled, Ordered
<1>5. \A i \in Slots : Posted(q, i)'
    <2>1. ASSUME NEW i \in Slots, request'[i] = request[i], Active(i) => fhandler'[i] = fhandler[i]
          PROVE  Posted(q, i)'
        <3>1. Posted(q, i) /\ (Active(i) => Caller(i) \in Clients)
            BY Zenon DEF Settled, Posted, Waits
        <3> QED
            BY <1>2, <2>1, <3>1, PostedSame
    <2> QED
        BY <2>1
<1>6. \A d \in Clients : Client(d)'
    <2>1. ASSUME NEW d \in Clients, \A i \in Slots : Serves(i, d) => Serves(i, d)'
          PROVE  Client(d)'
        <3>1. Client(d) /\ Same(d)
            BY <1>2 DEF Settled
        <3> QED
            BY <2>1, <3>1, ClientSame
    <2> QED
        BY <2>1
<1> QED
    BY <1>3, <1>4, <1>5, <1>6, Zenon DEF Settled

\* The same when sessions and requests stay as they are.
LEMMA SettledSame ==
    ASSUME NEW q \in Seq(Messages), Settled(q), UNCHANGED <<fhandler, request, free_sessions, clientV, inbox, historyV>>
    PROVE  Settled(q)'
<1>1. fhandler' = fhandler /\ request' = request /\ free_sessions' = free_sessions
    OBVIOUS
<1>2. Single' /\ Free'
    BY <1>1, Zenon DEF Settled, Single, Free, Active, Caller
<1>3. \A i \in Slots, d \in Clients : Serves(i, d) => Serves(i, d)'
    BY <1>1, Zenon DEF Serves
<1> QED
    BY <1>1, <1>2, <1>3, SettledStays

\* A client reads on in its answer.
LEMMA SettledAnswer ==
    ASSUME TInv, NEW q \in Seq(Messages), Settled(q), NEW c \in Clients, NEW p, NEW v, NEW d, AnsweredWith(c, p, v, d),
           UNCHANGED <<fhandler, request, free_sessions, session_id, call, done, answer>>,
           \A e \in Clients : e # c => cpc'[e] = cpc[e] /\ got'[e] = got[e] /\ inbox'[e] = inbox[e],
           \/ cpc'[c] = "answer" /\ got'[c] = Field(v) /\ inbox'[c] = d
           \/ cpc'[c] = "data" /\ v \in Nat /\ got'[c] = Field(v) /\ inbox'[c] = d
           \/ cpc'[c] = "data" /\ v \in Nat /\ got'[c] = Field(v) \o d /\ inbox'[c] = <<>>
    PROVE  Settled(q)'
<1>1. /\ fhandler' = fhandler /\ request' = request /\ free_sessions' = free_sessions /\ session_id' = session_id /\ call' = call
      /\ done' = done /\ answer' = answer
    OBVIOUS
<1>2. \A e \in Clients : e # c => Same(e)
    BY <1>1, Zenon DEF Same
<1>3. Answered(c)
    BY Zenon DEF Answered
<1>4. Absent(q, c) /\ \A i \in Slots : Active(i) => Caller(i) # c
    BY <1>3, AnsweredAlone
<1>5. AnsweredWith(c, p, v, d)'
    BY <1>1, Zenon DEF AnsweredWith, Serves
<1>6. Answered(c)'
    BY <1>5, Zenon DEF Answered
<1>7. cpc[c] \in {"answer", "data"} /\ cpc'[c] \in {"answer", "data"}
    BY DEF AnsweredWith
<1>8. call'[c][1].op # "MOUNT" => (session_id[c] \in Slots /\ Serves(session_id[c], c))'
    BY <1>1, <1>7, Zenon DEF Settled, Client, Serves
<1>9. cpc'[c] # "out" /\ cpc'[c] # "in"
    BY <1>7
<1>10. Client(c)'
    BY <1>6, <1>8, <1>9, Zenon DEF Client
<1> QED
    BY <1>1, <1>2, <1>4, <1>10, Own

\* A read of slait.
LEMMA SettledReceive ==
    ASSUME TInv, NEW q \in Seq(Messages), Settled(q), NEW c \in Clients, Receive(c)
    PROVE  Settled(q)'
<1>1. /\ cpc[c] \in {"answer", "data"} /\ inbox[c] # <<>>
      /\ \E n : /\ got' = [got EXCEPT ![c] = @ \o SubSeq(inbox[c], 1, n)]
                /\ inbox' = [inbox EXCEPT ![c] = SubSeq(@, n + 1, Len(@))]
      /\ fhandler' = fhandler /\ request' = request /\ cpc' = cpc /\ session_id' = session_id /\ call' = call
      /\ done' = done /\ answer' = answer /\ free_sessions' = free_sessions
    BY Zenon DEF Receive, historyV, tableV
<1>2. got \in [Clients -> Seq(Byte)] /\ inbox \in [Clients -> Seq(Byte)]
    BY DEF TInv, TypeOK
<1>3. Answered(c)
    <2>1. ~Fresh(c)
        BY <1>1 DEF Fresh
    <2> QED
        BY <1>1, <2>1, AnsweredNow
<1>4. PICK p, v, d : AnsweredWith(c, p, v, d)
    BY <1>3 DEF Answered
<1>5. \/ cpc[c] = "answer" /\ got'[c] = Field(v) /\ inbox'[c] = d
      \/ cpc[c] = "data" /\ v \in Nat /\ got'[c] = Field(v) \o d /\ inbox'[c] = <<>>
    BY <1>4, Received
<1>6. \A e \in Clients : e # c => cpc'[e] = cpc[e] /\ got'[e] = got[e] /\ inbox'[e] = inbox[e]
    BY <1>1, <1>2
<1> QED
    BY <1>1, <1>4, <1>5, <1>6, SettledAnswer

\* The number of a tfs_read is complete.
LEMMA SettledReceiveData ==
    ASSUME TInv, NEW q \in Seq(Messages), Settled(q), NEW c \in Clients, ReceiveData(c)
    PROVE  Settled(q)'
<1>1. /\ cpc[c] = "answer" /\ call[c][1].op = "READ" /\ Have(c) >= Want(c) /\ Atoi(got[c]) >= 0
      /\ cpc' = [cpc EXCEPT ![c] = "data"] /\ got' = got /\ inbox' = inbox
      /\ fhandler' = fhandler /\ request' = request /\ session_id' = session_id /\ call' = call
      /\ done' = done /\ answer' = answer /\ free_sessions' = free_sessions
    BY DEF ReceiveData, historyV, tableV
<1>2. cpc \in [Clients -> {"out", "in", "answer", "data"}]
    BY DEF TInv, TypeOK
<1>3. Answered(c)
    <2>1. Want(c) = INT_SIZE /\ Have(c) = Len(got[c])
        BY <1>1 DEF Want, Have
    <2>2. got[c] # <<>>
        BY <1>1, <2>1, SizeAssumption
    <2>3. ~Fresh(c)
        BY <2>2 DEF Fresh
    <2> QED
        BY <1>1, <2>3, AnsweredNow
<1>4. PICK p, v, d : AnsweredWith(c, p, v, d)
    BY <1>3 DEF Answered
<1>5. got[c] = Field(v) /\ inbox[c] = d
    <2>1. got[c] = <<>> => ~(Have(c) >= Want(c))
        BY <1>1, <1>4, AnswerStage, SizeAssumption
    <2> QED
        BY <1>1, <1>4, <2>1 DEF AnsweredWith
<1>6. v \in Nat
    <2>1. v \in Nat \cup {-1} /\ Atoi(Field(v)) = v
        BY <1>4, Zenon DEF AnsweredWith
    <2> QED
        BY <1>1, <1>5, <2>1
<1>7. cpc'[c] = "data" /\ \A e \in Clients : e # c => cpc'[e] = cpc[e]
    BY <1>1, <1>2
<1>8. got'[c] = Field(v) /\ inbox'[c] = d /\ \A e \in Clients : got'[e] = got[e] /\ inbox'[e] = inbox[e]
    BY <1>1, <1>5
<1> QED
    BY <1>1, <1>4, <1>6, <1>7, <1>8, SettledAnswer

\* What a return does when the answer is v, d.
Returns(c, p, v, d) ==
    /\ AnsweredWith(c, p, v, d) /\ inbox[c] = <<>>
    /\ returned' = [returned EXCEPT ![c] = <<[val |-> v, data |-> d]>>]
    /\ session_id' = IF call[c][1].op = "MOUNT" THEN [session_id EXCEPT ![c] = v] ELSE session_id
    /\ cpc' = [cpc EXCEPT ![c] = IF call[c][1].op = "MOUNT" /\ v = -1 THEN "out" ELSE "in"]

\* A call returns the whole answer, and leaves nothing of it in the pipe.
LEMMA Returned ==
    ASSUME TInv, NEW q, Settled(q), NEW c \in Clients, Return(c)
    PROVE  \E p, v, d : Returns(c, p, v, d)
<1> DEFINE r    == call[c][1]
           Val  == Atoi(IF r.op = "READ" THEN SubSeq(got[c], 1, INT_SIZE) ELSE got[c])
           Data == IF r.op = "READ" THEN SubSeq(got[c], INT_SIZE + 1, Len(got[c])) ELSE <<>>
<1>1. /\ cpc[c] \in {"answer", "data"} /\ Have(c) >= Want(c)
      /\ cpc[c] = "answer" /\ r.op = "READ" => Atoi(got[c]) < 0
      /\ returned' = [returned EXCEPT ![c] = <<[val |-> Val, data |-> Data]>>]
      /\ session_id' = IF r.op = "MOUNT" THEN [session_id EXCEPT ![c] = Val] ELSE session_id
      /\ cpc' = [cpc EXCEPT ![c] = IF r.op = "MOUNT" /\ Val < 0 THEN "out" ELSE "in"]
    BY DEF Return
<1>2. CallType(c, r) /\ (cpc[c] = "data" => Len(got[c]) >= INT_SIZE)
    BY <1>1 DEF TInv, ClientType
<1>3. got[c] # <<>>
    <2>1. CASE cpc[c] = "data"
        BY <1>2, <2>1, SizeAssumption
    <2>2. CASE cpc[c] = "answer"
        <3>1. r.op = "WRITE" => r.to_write \in Texts /\ r.len = Len(r.to_write)
            BY <1>2, CallFields
        <3>2. \A t \in Texts : Len(t) \in Nat /\ Len(t) > 0
            BY WriteLength
        <3>3. Want(c) \in Nat /\ Want(c) > 0
            <4>1. Want(c) = (IF r.op = "WRITE" THEN r.len ELSE INT_SIZE)
                BY <2>2 DEF Want
            <4>2. PICK l : l = r.len
                OBVIOUS
            <4>3. r.op = "WRITE" => l \in Nat /\ l > 0
                BY <3>1, <3>2, <4>2, Zenon
            <4> QED
                BY <4>1, <4>2, <4>3, SizeAssumption
        <3>4. Have(c) = Len(got[c])
            BY <2>2 DEF Have
        <3> QED
            BY <1>1, <3>3, <3>4
    <2> QED
        BY <1>1, <2>1, <2>2
<1>4. PICK p, v, d : AnsweredWith(c, p, v, d)
    <2>1. ~Fresh(c)
        BY <1>3 DEF Fresh
    <2> QED
        BY <1>1, <2>1, AnsweredNow DEF Answered
<1>5. /\ d \in Seq(Byte) /\ v \in Nat \cup {-1} /\ Atoi(Field(v)) = v
      /\ IF r.op = "READ" THEN (v = -1 /\ d = <<>>) \/ (v \in Nat /\ Len(d) = v)
                          ELSE d = <<>>
      /\ \/ cpc[c] = "answer" /\ got[c] = <<>> /\ inbox[c] = Field(v) \o d
         \/ cpc[c] = "answer" /\ got[c] = Field(v) /\ inbox[c] = d
         \/ cpc[c] = "data" /\ v \in Nat /\ got[c] = Field(v) /\ inbox[c] = d
         \/ cpc[c] = "data" /\ v \in Nat /\ got[c] = Field(v) \o d /\ inbox[c] = <<>>
    BY <1>4, Zenon DEF AnsweredWith
<1>6. /\ SubSeq(Field(v), 1, INT_SIZE) = Field(v) /\ SubSeq(Field(v), INT_SIZE + 1, Len(Field(v))) = <<>>
      /\ SubSeq(Field(v) \o d, 1, INT_SIZE) = Field(v)
      /\ SubSeq(Field(v) \o d, INT_SIZE + 1, Len(Field(v) \o d)) = d
    BY <1>5, AnswerPieces, Zenon
<1>7. inbox[c] = <<>> /\ Val = v /\ Data = d
    <2>1. CASE got[c] = Field(v) /\ d = <<>> /\ inbox[c] = d
        BY <1>5, <1>6, <2>1, Zenon
    <2>2. CASE cpc[c] = "data" /\ got[c] = Field(v) \o d /\ inbox[c] = <<>>
        <3>1. r.op = "READ"
            BY <1>4, <2>2, AnswerStage
        <3> QED
            BY <1>5, <1>6, <2>2, <3>1, Zenon
    <2>3. CASE cpc[c] = "answer" /\ got[c] = Field(v) /\ inbox[c] = d
        <3>1. d = <<>>
            BY <1>1, <1>5, <2>3
        <3> QED
            BY <2>1, <2>3, <3>1
    <2>4. CASE cpc[c] = "data" /\ v \in Nat /\ got[c] = Field(v) /\ inbox[c] = d
        <3>1. Have(c) = 0 /\ Want(c) = v /\ r.op = "READ"
            BY <1>4, <2>4, AnswerStage
        <3>2. v = 0
            BY <1>1, <2>4, <3>1
        <3>3. Len(d) = 0
            BY <1>5, <3>1, <3>2
        <3>4. d = <<>>
            BY <1>5, <3>3, EmptySeq
        <3> QED
            BY <2>1, <2>4, <3>4
    <2> QED
        BY <1>3, <1>5, <2>2, <2>3, <2>4
<1>8. v < 0 <=> v = -1
    BY <1>5
<1>9. /\ returned' = [returned EXCEPT ![c] = <<[val |-> v, data |-> d]>>]
      /\ session_id' = IF r.op = "MOUNT" THEN [session_id EXCEPT ![c] = v] ELSE session_id
      /\ cpc' = [cpc EXCEPT ![c] = IF r.op = "MOUNT" /\ v < 0 THEN "out" ELSE "in"]
    <2> HIDE DEF Val, Data
    <2> QED
        BY <1>1, <1>7
<1>10. cpc' = [cpc EXCEPT ![c] = IF r.op = "MOUNT" /\ v = -1 THEN "out" ELSE "in"]
    BY <1>8, <1>9
<1>11. Returns(c, p, v, d)
    BY <1>4, <1>7, <1>9, <1>10 DEF Returns
<1> QED
    BY <1>11

\* A call returns.
LEMMA SettledReturn ==
    ASSUME TInv, NEW q \in Seq(Messages), Settled(q), NEW c \in Clients, Return(c)
    PROVE  Settled(q)'
<1>1. /\ call' = [call EXCEPT ![c] = <<>>] /\ got' = [got EXCEPT ![c] = <<>>]
      /\ done' = [done EXCEPT ![c] = <<>>] /\ answer' = [answer EXCEPT ![c] = <<>>]
      /\ fhandler' = fhandler /\ request' = request /\ free_sessions' = free_sessions /\ inbox' = inbox
    BY DEF Return, tableV
<1>2. PICK p, v, d : Returns(c, p, v, d)
    BY Returned
<1>3. /\ AnsweredWith(c, p, v, d) /\ inbox[c] = <<>>
      /\ session_id' = IF call[c][1].op = "MOUNT" THEN [session_id EXCEPT ![c] = v] ELSE session_id
      /\ cpc' = [cpc EXCEPT ![c] = IF call[c][1].op = "MOUNT" /\ v = -1 THEN "out" ELSE "in"]
    BY <1>2 DEF Returns
<1>4. /\ cpc \in [Clients -> {"out", "in", "answer", "data"}] /\ got \in [Clients -> Seq(Byte)]
      /\ session_id \in [Clients -> Int]
      /\ call = [e \in Clients |-> call[e]] /\ done = [e \in Clients |-> done[e]] /\ answer = [e \in Clients |-> answer[e]]
    BY DEF TInv, TypeOK, Shapes
<1>5. \A e \in Clients : e # c => Same(e)
    <2>1. ASSUME NEW e \in Clients, e # c
          PROVE  /\ call'[e] = call[e] /\ got'[e] = got[e] /\ done'[e] = done[e] /\ answer'[e] = answer[e]
                 /\ session_id'[e] = session_id[e] /\ cpc'[e] = cpc[e]
        BY <1>1, <1>3, <1>4, <2>1
    <2> QED
        BY <1>1, <2>1, Zenon DEF Same
<1>6. /\ call'[c] = <<>> /\ got'[c] = <<>> /\ done'[c] = <<>> /\ answer'[c] = <<>> /\ inbox'[c] = <<>>
    BY <1>1, <1>3, <1>4
<1>7. /\ session_id'[c] = IF call[c][1].op = "MOUNT" THEN v ELSE session_id[c]
      /\ cpc'[c] = IF call[c][1].op = "MOUNT" /\ v = -1 THEN "out" ELSE "in"
    BY <1>3, <1>4
<1>8. Fresh(c)'
    BY <1>6, Zenon DEF Fresh
<1>9. Answered(c)
    BY <1>3, Zenon DEF Answered
<1>10. Absent(q, c) /\ \A i \in Slots : Active(i) => Caller(i) # c
    BY <1>9, AnsweredAlone
<1>11. call[c][1].op = "MOUNT" => v = -1 \/ (v \in Slots /\ Serves(v, c))
    BY <1>3, Zenon DEF AnsweredWith
<1>12. call[c][1].op # "MOUNT" => session_id[c] \in Slots /\ Serves(session_id[c], c)
    <2>1. cpc[c] \in {"answer", "data"}
        BY DEF Return
    <2> QED
        BY <2>1, Zenon DEF Settled, Client
<1>13. Client(c)'
    <2>1. CASE call[c][1].op = "MOUNT" /\ v = -1
        <3>1. cpc'[c] = "out" /\ "out" # "in" /\ "out" \notin {"answer", "data"}
            BY <1>7, <2>1
        <3> QED
            BY <1>6, <1>8, <3>1, Zenon DEF Client
    <2>2. CASE ~(call[c][1].op = "MOUNT" /\ v = -1)
        <3>1. cpc'[c] = "in" /\ "in" # "out" /\ "in" \notin {"answer", "data"}
            BY <1>7, <2>2
        <3>2. PICK i \in Slots : i = session_id'[c] /\ Serves(i, c)
            BY <1>7, <1>11, <1>12, <2>2
        <3>3. (session_id[c] \in Slots /\ Serves(session_id[c], c))'
            BY <1>1, <3>2, Zenon DEF Serves
        <3> QED
            BY <1>6, <1>8, <3>1, <3>3, Zenon DEF Client
    <2> QED
        BY <2>1, <2>2
<1> QED
    BY <1>1, <1>5, <1>10, <1>13, Own

(***************************************************************************)
(* The handlers.                                                           *)
(***************************************************************************)
\* The bytes between the first and the last part.
LEMMA MiddleBytes ==
    \A s, t, u \in Seq(Byte) :
        /\ SubSeq(s \o (t \o u), 1, Len(s)) = s /\ SubSeq(s \o (t \o u), Len(s) + 1, Len(s) + Len(t)) = t
        /\ SubSeq(s \o (t \o u), Len(s) + Len(t) + 1, Len(s \o (t \o u))) = u
<1> SUFFICES ASSUME NEW s \in Seq(Byte), NEW t \in Seq(Byte), NEW u \in Seq(Byte), NEW m, m = s \o (t \o u),
                    NEW k \in Nat, NEW l \in Nat, k = Len(s), l = Len(t)
             PROVE  /\ SubSeq(m, 1, k) = s /\ SubSeq(m, k + 1, k + l) = t
                    /\ SubSeq(m, k + l + 1, Len(m)) = u
    BY LenProperties
<1>1. PICK w \in Seq(Byte) : w = t \o u
    BY SplitBytes
<1>2. Len(w) = l + Len(u) /\ \A j \in 1 .. l : w[j] = t[j]
    BY <1>1, ConcatProperties
<1>3. m \in Seq(Byte) /\ SubSeq(m, 1, k) = s /\ Len(m) = k + Len(w)
    BY <1>1, SplitBytes, Zenon
<1>4. \A j \in 1 .. Len(w) : m[k + j] = w[j]
    BY <1>1, ConcatProperties
<1>5. SubSeq(m, k + l + 1, Len(m)) = u
    <2>1. m = (s \o t) \o u
        BY Regroup, Zenon
    <2>2. PICK y \in Seq(Byte) : y = s \o t
        BY SplitBytes
    <2>3. Len(y) = k + l
        BY <2>2, SplitBytes, Zenon
    <2>4. SubSeq(y \o u, Len(y) + 1, Len(y \o u)) = u
        BY SplitBytes
    <2> QED
        BY <2>1, <2>2, <2>3, <2>4
<1>6. SubSeq(m, k + 1, k + l) = t
    <2>1. PICK n \in Nat : n = Len(m)
        BY <1>3, LenProperties
    <2>2. Len(u) \in Nat
        BY LenProperties
    <2>3. k + l <= n /\ k + 1 <= k + l + 1 /\ k + 1 \in Nat \ {0} /\ k + l \in Nat
        BY <1>2, <1>3, <2>1, <2>2
    <2>4. PICK x : x = SubSeq(m, k + 1, k + l)
        OBVIOUS
    <2>5. /\ x \in Seq(Byte) /\ Len(x) = (k + l) - (k + 1) + 1
          /\ \A j \in 1 .. (k + l) - (k + 1) + 1 : x[j] = m[(k + 1) + j - 1]
        BY <1>3, <2>1, <2>3, <2>4, Piece, SMTT(60)
    <2>6. Len(x) = l
        BY <2>5
    <2>7. ASSUME NEW j \in 1 .. l
          PROVE  x[j] = t[j]
        <3>1. (k + 1) + j - 1 = k + j /\ j \in 1 .. (k + l) - (k + 1) + 1
            OBVIOUS
        <3>2. x[j] = m[k + j]
            BY <2>5, <3>1
        <3>3. j \in 1 .. Len(w)
            BY <1>2, <2>2
        <3> QED
            BY <1>2, <1>4, <3>2, <3>3
    <2>8. x = t
        BY <2>5, <2>6, <2>7, SeqEqual
    <2> QED
        BY <2>4, <2>8
<1> QED
    BY <1>3, <1>5, <1>6

\* A call that is performed as it is.
LEMMA FitsSelf ==
    ASSUME NEW r \in Requests
    PROVE  Contract!Fits(r, r)
BY DEF Contract!Fits, Requests

\* The message a handler has read, once it has all the fields.
LEMMA Taken ==
    ASSUME TInv, NEW q \in Seq(Messages), Reading(q), Settled(q), NEW o \in Ops, op = o, Parsed
    PROVE  \E m \in Messages :
               /\ q # <<>> /\ m = q[1] /\ m.c \in Clients /\ m.sid \in Slots /\ m.r \in Requests
               /\ CallType(m.c, m.r) /\ Queued(m) /\ o = m.r.op
               /\ Atoi(Field(m.sid)) = m.sid /\ Atoi(Field(m.r.fhandle)) = m.r.fhandle
               /\ Len(fields) = Parts(o) /\ \A k \in 1 .. Parts(o) : fields[k] = Part(m, k)
               /\ Handled(o) => Reading(Tail(q))'
<1>1. \A k \in 1 .. Len(q) : CallType(q[k].c, q[k].r)
    BY Zenon DEF Settled, Queued
<1>2. /\ q # <<>> /\ o = q[1].r.op /\ Len(fields) = Parts(o) /\ \A k \in 1 .. Parts(o) : fields[k] = Part(q[1], k)
      /\ Handled(o) => Reading(Tail(q))'
    BY <1>1, ReadingParsed, Zenon
<1>3. PICK m \in Messages : m = q[1]
    BY <1>2, QueueTail
<1>4. 1 \in 1 .. Len(q)
    BY <1>2, QueueTail
<1>5. Queued(m) /\ m.sid \in Slots /\ CallType(m.c, m.r)
    BY <1>3, <1>4, Zenon DEF Settled, Queued
<1>6. m.c \in Clients /\ m.r \in Requests /\ m.r.fhandle \in Handle \cup {-1}
    BY DEF Messages, Requests
<1>7. m.sid \in 0 .. 99
    <2>1. \A i \in Slots : i \in 0 .. 99
        BY SizeAssumption DEF Slots
    <2> QED
        BY <1>5, <2>1
<1>8. Atoi(Field(m.sid)) = m.sid
    BY <1>7, AtoiHandle, Zenon
<1>9. m.r.fhandle \in 0 .. 99 \cup {-1}
    BY <1>6, HandleAssumption
<1>10. Atoi(Field(m.r.fhandle)) = m.r.fhandle
    BY <1>9, AtoiHandle
<1> QED
    BY <1>2, <1>3, <1>5, <1>6, <1>8, <1>10, Zenon

\* The client of a message that main has read has no call with a worker.
LEMMA FirstAlone ==
    ASSUME NEW q \in Seq(Messages), q # <<>>, Settled(q)
    PROVE  \A i \in Slots : Active(i) => Caller(i) # q[1].c
<1>1. 1 \in 1 .. Len(q)
    BY QueueTail
<1>2. ASSUME NEW i \in Slots, Active(i)
      PROVE  Caller(i) # q[1].c
    <2>1. Absent(q, Caller(i))
        BY <1>2, Zenon DEF Settled, Posted, Waits
    <2> QED
        BY <1>1, <2>1, Zenon DEF Absent
<1> QED
    BY <1>2

\* A handler posts the call it has read to the session's worker.
LEMMA SettledPost ==
    ASSUME TInv, NEW q \in Seq(Messages), q # <<>>, Settled(q), q[1].r.op \notin {"MOUNT", "UNMOUNT"},
           NEW r, Post(q[1].sid, r), Contract!Fits(q[1].r, r), Short(r),
           UNCHANGED <<fhandler, tableV, clientV, inbox, historyV>>
    PROVE  Settled(Tail(q))'
<1>1. PICK m \in Messages : m = q[1]
    BY QueueTail
<1>2. PICK t \in Seq(Messages) : t = Tail(q)
    BY QueueTail
<1>3. m.r.op # "MOUNT" /\ m.r.op # "UNMOUNT"
    BY <1>1
<1>4. Settled(t) /\ Absent(t, m.c) /\ Queued(m) /\ m.c \in Clients
    BY <1>1, <1>2, <1>3, Dequeue
<1>5. m.sid \in Slots /\ Serves(m.sid, m.c) /\ cpc[m.c] = "answer" /\ call[m.c] = <<m.r>> /\ Fresh(m.c)
    BY <1>3, <1>4, Zenon DEF Queued
<1>6. request' = [request EXCEPT ![m.sid] = <<r>>] /\ request = [i \in Slots |-> request[i]]
    BY <1>1 DEF Post, TInv, Shapes
<1>7. /\ fhandler' = fhandler /\ inbox' = inbox /\ done' = done /\ answer' = answer /\ free_sessions' = free_sessions
      /\ cpc' = cpc /\ session_id' = session_id /\ call' = call /\ got' = got
    BY DEF clientV, historyV, tableV
<1>8. request'[m.sid] = <<r>> /\ \A i \in Slots : i # m.sid => request'[i] = request[i]
    BY <1>5, <1>6
<1>9. r.op = m.r.op
    <2>1. r = [m.r EXCEPT !.len = r.len]
        BY <1>1 DEF Contract!Fits
    <2>2. m.r \in Requests
        BY DEF Messages
    <2> QED
        BY <2>1, <2>2 DEF Requests
<1>10. request'[m.sid] # <<>> /\ request'[m.sid][1] = r /\ r.op # "MOUNT" /\ r.op # "UNMOUNT" /\ fhandler[m.sid] = m.c
    <2>1. <<r>> # <<>> /\ <<r>>[1] = r
        OBVIOUS
    <2> QED
        BY <1>3, <1>5, <1>8, <1>9, <2>1 DEF Serves
<1>11. Active(m.sid)' /\ Caller(m.sid)' = m.c
    BY <1>7, <1>10, Zenon DEF Active, Caller
<1>12. Posted(t, m.sid)'
    <2>1. Fresh(m.c)'
        BY <1>5, <1>7, Zenon DEF Fresh
    <2>2. call[m.c][1] = m.r
        BY <1>5
    <2>3. Waits(t, m.c, r)'
        BY <1>1, <1>3, <1>4, <1>5, <1>7, <2>1, <2>2, Zenon DEF Waits
    <2>4. Waits(t, Caller(m.sid), request[m.sid][1])'
        BY <1>10, <1>11, <2>3, Zenon DEF Waits, Fresh
    <2> QED
        BY <1>8, <1>10, <2>4, Zenon DEF Posted
<1>13. \A i \in Slots : i # m.sid => (Active(i)' = Active(i) /\ Caller(i)' = Caller(i))
    BY <1>7, <1>8, Zenon DEF Active, Caller
<1>14. Single'
    <2>1. Single /\ \A i \in Slots : Active(i) => Caller(i) # m.c
        BY <1>1, FirstAlone DEF Settled
    <2>2. ASSUME NEW i \in Slots, NEW j \in Slots, Active(i)', Active(j)', Caller(i)' = Caller(j)'
          PROVE  i = j
        <3>1. CASE i = m.sid
            <4>1. j # m.sid => Active(j) /\ Caller(j) = m.c
                BY <1>11, <1>13, <2>2, <3>1, Zenon
            <4> QED
                BY <2>1, <3>1, <4>1, Zenon
        <3>2. CASE i # m.sid /\ j = m.sid
            <4>1. Active(i) /\ Caller(i) = m.c
                BY <1>11, <1>13, <2>2, <3>2, Zenon
            <4> QED
                BY <2>1, <4>1, Zenon
        <3>3. CASE i # m.sid /\ j # m.sid
            <4>1. Active(i) /\ Active(j) /\ Caller(i) = Caller(j)
                BY <1>13, <2>2, <3>3, Zenon
            <4> QED
                BY <2>1, <4>1, Zenon DEF Single
        <3> QED
            BY <3>1, <3>2, <3>3
    <2> QED
        BY <2>2, Zenon DEF Single
<1>15. Free'
    <2>1. m.c # NoClient
        BY <1>4, ByteAssumption DEF Letter
    <2>2. m.sid \notin free_sessions /\ free_sessions \subseteq Slots
        BY <1>4, <1>10, <2>1 DEF Settled, Free, TInv, TypeOK
    <2> QED
        BY <1>4, <1>7, <1>8, <2>2 DEF Settled, Free
<1>16. \A i \in Slots, d \in Clients : Serves(i, d) => Serves(i, d)'
    BY <1>7, <1>8, <1>10, Zenon DEF Serves
<1>17. \A i \in Slots : request'[i] = request[i] \/ Posted(t, i)'
    BY <1>8, <1>12, Zenon
<1>18. Settled(t)'
    BY <1>4, <1>7, <1>14, <1>15, <1>16, <1>17, SettledStays
<1> QED
    BY <1>2, <1>18, Zenon

\* tfs_handle_open posts the call as it was made.
LEMMA SettledOpen ==
    ASSUME TInv, NEW q \in Seq(Messages), Reading(q), Settled(q), HandleOpen
    PROVE  q # <<>> /\ Reading(Tail(q))' /\ Settled(Tail(q))'
<1>1. /\ op = "OPEN" /\ Handled("OPEN") /\ Parsed /\ "OPEN" \in Ops /\ UNCHANGED <<fhandler, tableV, clientV, inbox, historyV>>
    BY DEF HandleOpen, Handled, Ops, OpCode
<1>2. PICK m \in Messages :
          /\ q # <<>> /\ m = q[1] /\ m.c \in Clients /\ m.sid \in Slots /\ m.r \in Requests
          /\ CallType(m.c, m.r) /\ "OPEN" = m.r.op /\ Atoi(Field(m.sid)) = m.sid
          /\ Len(fields) = Parts("OPEN") /\ \A k \in 1 .. Parts("OPEN") : fields[k] = Part(m, k)
          /\ Handled("OPEN") => Reading(Tail(q))'
    BY <1>1, Taken, Zenon
<1>3. fields[1] = Field(m.sid) \o (NameField(m.r.name[1]) \o <<m.r.flags>>)
    <2>1. Parts("OPEN") = 1
        BY DEF Parts
    <2>2. Part(m, 1) = Field(m.sid) \o (NameField(m.r.name[1]) \o <<m.r.flags>>)
        BY <1>2 DEF Part
    <2>3. 1 \in 1 .. 1
        OBVIOUS
    <2>4. fields[1] = Part(m, 1)
        BY <1>2, <2>1, <2>3, Zenon
    <2> QED
        BY <2>2, <2>4, Zenon
<1>4. PICK b \in Name, f \in Flags : b = m.r.name[1] /\ f = m.r.flags /\ m.r.name = <<b>>
    BY <1>2, CallFields
<1>5. f \in 0 .. 9 /\ b \in Letter
    BY FlagsAssumption DEF Letter
<1>6. /\ Field(m.sid) \in Seq(Byte) /\ INT_SIZE = Len(Field(m.sid)) /\ NameField(b) \in Seq(Byte)
      /\ NAME_SIZE = Len(NameField(b)) /\ CString(NameField(b)) = <<b>> /\ <<f>> \in Seq(Byte) /\ Atoi(<<f>>) = f
    <2>1. m.sid \in Nat \cup {-1}
        BY <1>2 DEF Slots
    <2> QED
        BY <1>5, <2>1, FieldType, NameFieldType, OneByte, AtoiDigit
<1>7. /\ SubSeq(fields[1], 1, INT_SIZE) = Field(m.sid)
      /\ SubSeq(fields[1], INT_SIZE + 1, INT_SIZE + NAME_SIZE) = NameField(b)
      /\ SubSeq(fields[1], INT_SIZE + NAME_SIZE + 1, Len(fields[1])) = <<f>>
    <2>1. INT_SIZE \in Nat /\ NAME_SIZE \in Nat
        BY SizeAssumption
    <2>2. PICK s \in Seq(Byte), t \in Seq(Byte), u \in Seq(Byte) : s = Field(m.sid) /\ t = NameField(b) /\ u = <<f>>
        BY <1>6
    <2>3. fields[1] = s \o (t \o u)
        BY <1>3, <1>4, <2>2, Zenon
    <2>4. INT_SIZE = Len(s) /\ NAME_SIZE = Len(t)
        BY <1>6, <2>2
    <2>5. PICK w : w = fields[1]
        OBVIOUS
    <2>6. /\ SubSeq(w, 1, INT_SIZE) = s /\ SubSeq(w, INT_SIZE + 1, INT_SIZE + NAME_SIZE) = t
          /\ SubSeq(w, INT_SIZE + NAME_SIZE + 1, Len(w)) = u
        <3>1. w = s \o (t \o u)
            BY <2>3, <2>5, Zenon
        <3>2. /\ SubSeq(s \o (t \o u), 1, Len(s)) = s /\ SubSeq(s \o (t \o u), Len(s) + 1, Len(s) + Len(t)) = t
              /\ SubSeq(s \o (t \o u), Len(s) + Len(t) + 1, Len(s \o (t \o u))) = u
            BY MiddleBytes
        <3> QED
            BY <2>4, <3>1, <3>2, Zenon
    <2> QED
        BY <2>2, <2>5, <2>6, Zenon
<1>8. Post(m.sid, [NoRequest EXCEPT !.op = "OPEN", !.name = <<b>>, !.flags = f])
    <2>1. Post(Atoi(SubSeq(fields[1], 1, INT_SIZE)),
               [NoRequest EXCEPT !.op = "OPEN",
                !.name = CString(SubSeq(fields[1], INT_SIZE + 1, INT_SIZE + NAME_SIZE)),
                !.flags = Atoi(SubSeq(fields[1], INT_SIZE + NAME_SIZE + 1, Len(fields[1])))])
        BY DEF HandleOpen
    <2> QED
        BY <1>2, <1>6, <1>7, <2>1
<1>9. m.r = [NoRequest EXCEPT !.op = "OPEN", !.name = <<b>>, !.flags = f]
    BY <1>2, <1>4, CallFields, ZenonT(60)
<1>10. Post(q[1].sid, q[1].r) /\ Contract!Fits(q[1].r, q[1].r)
    BY <1>2, <1>8, <1>9, FitsSelf
<1>11. q[1].r.op \notin {"MOUNT", "UNMOUNT"} /\ Short(q[1].r)
    BY <1>2 DEF Short
<1>12. Settled(Tail(q))'
    BY <1>1, <1>2, <1>10, <1>11, SettledPost
<1> QED
    BY <1>1, <1>2, <1>12

\* The fields of a close, a read and a write.
LEMMA AccessFields ==
    ASSUME TInv, NEW q \in Seq(Messages), Reading(q), Settled(q), NEW o \in {"CLOSE", "READ", "WRITE"},
           Handled(o), Parsed
    PROVE  \E m \in Messages :
               /\ q # <<>> /\ m = q[1] /\ m.r \in Requests /\ CallType(m.c, m.r) /\ o = m.r.op /\ Reading(Tail(q))'
               /\ Atoi(fields[1]) = m.sid /\ Atoi(fields[2]) = m.r.fhandle
               /\ o \in {"READ", "WRITE"} => fields[3] = Field(m.r.len)
               /\ o = "WRITE" => fields[4] = m.r.to_write
<1>1. op = o /\ o \in Ops
    BY DEF Handled, Ops, OpCode
<1>2. PICK m \in Messages :
          /\ q # <<>> /\ m = q[1] /\ m.r \in Requests /\ CallType(m.c, m.r) /\ o = m.r.op
          /\ Atoi(Field(m.sid)) = m.sid /\ Atoi(Field(m.r.fhandle)) = m.r.fhandle
          /\ \A k \in 1 .. Parts(o) : fields[k] = Part(m, k)
          /\ Handled(o) => Reading(Tail(q))'
    BY <1>1, Taken, Zenon
<1>3. /\ 1 \in 1 .. Parts(o) /\ 2 \in 1 .. Parts(o)
      /\ o \in {"READ", "WRITE"} => 3 \in 1 .. Parts(o)
      /\ o = "WRITE" => 4 \in 1 .. Parts(o)
    BY DEF Parts
<1>4. /\ Part(m, 1) = Field(m.sid) /\ Part(m, 2) = Field(m.r.fhandle)
      /\ o \in {"READ", "WRITE"} => Part(m, 3) = Field(m.r.len)
      /\ o = "WRITE" => Part(m, 4) = m.r.to_write
    BY <1>2 DEF Part
<1> QED
    BY <1>2, <1>3, <1>4, Zenon

\* tfs_handle_close posts the call as it was made.
LEMMA SettledClose ==
    ASSUME TInv, NEW q \in Seq(Messages), Reading(q), Settled(q), HandleClose
    PROVE  q # <<>> /\ Reading(Tail(q))' /\ Settled(Tail(q))'
<1>1. /\ Handled("CLOSE") /\ Parsed /\ UNCHANGED <<fhandler, tableV, clientV, inbox, historyV>>
      /\ Post(Atoi(fields[1]), [NoRequest EXCEPT !.op = "CLOSE", !.fhandle = Atoi(fields[2])])
    BY DEF HandleClose, Handled
<1>2. PICK m \in Messages :
          /\ q # <<>> /\ m = q[1] /\ m.r \in Requests /\ CallType(m.c, m.r) /\ "CLOSE" = m.r.op /\ Reading(Tail(q))'
          /\ Atoi(fields[1]) = m.sid /\ Atoi(fields[2]) = m.r.fhandle
    BY <1>1, AccessFields
<1>3. m.r = [NoRequest EXCEPT !.op = "CLOSE", !.fhandle = m.r.fhandle]
    BY <1>2, CallFields DEF Messages
<1>4. Post(q[1].sid, q[1].r) /\ Contract!Fits(q[1].r, q[1].r)
    BY <1>1, <1>2, <1>3, FitsSelf
<1>5. q[1].r.op \notin {"MOUNT", "UNMOUNT"} /\ Short(q[1].r)
    BY <1>2 DEF Short
<1> QED
    BY <1>1, <1>2, <1>4, <1>5, SettledPost

\* tfs_handle_read posts the call with its length, or with what fits the field of it.
LEMMA SettledRead ==
    ASSUME TInv, NEW q \in Seq(Messages), Reading(q), Settled(q), HandleRead
    PROVE  q # <<>> /\ Reading(Tail(q))' /\ Settled(Tail(q))'
<1>1. /\ Handled("READ") /\ Parsed /\ UNCHANGED <<fhandler, tableV, clientV, inbox, historyV>>
      /\ Post(Atoi(fields[1]), [NoRequest EXCEPT !.op = "READ", !.fhandle = Atoi(fields[2]), !.len = Atoi(fields[3])])
    BY DEF HandleRead, Handled
<1>2. PICK m \in Messages :
          /\ q # <<>> /\ m = q[1] /\ m.r \in Requests /\ CallType(m.c, m.r) /\ "READ" = m.r.op /\ Reading(Tail(q))'
          /\ Atoi(fields[1]) = m.sid /\ Atoi(fields[2]) = m.r.fhandle /\ fields[3] = Field(m.r.len)
    BY <1>1, AccessFields
<1>3. m.r = [NoRequest EXCEPT !.op = "READ", !.fhandle = m.r.fhandle, !.len = m.r.len]
    BY <1>2, CallFields DEF Messages
<1>4. PICK l \in Nat : l = m.r.len
    BY <1>2 DEF Requests
<1>5. PICK n \in Nat : n = Atoi(fields[3]) /\ n <= l
    BY <1>2, <1>4, AtoiField
<1>6. PICK r : r = [NoRequest EXCEPT !.op = "READ", !.fhandle = m.r.fhandle, !.len = n]
    OBVIOUS
<1>7. Post(q[1].sid, r)
    BY <1>1, <1>2, <1>5, <1>6
<1>8. r.len = n /\ r = [m.r EXCEPT !.len = n]
    <2>1. PICK h : h = m.r.fhandle
        OBVIOUS
    <2>2. m.r = [NoRequest EXCEPT !.op = "READ", !.fhandle = h, !.len = l]
        BY <1>3, <1>4, <2>1
    <2> QED
        BY <1>6, <2>1, <2>2 DEF NoRequest
<1>9. Contract!Fits(q[1].r, r)
    BY <1>2, <1>4, <1>5, <1>8 DEF Contract!Fits
<1>10. Short(r)
    BY <1>2, <1>4, <1>5, <1>8, FieldFits DEF Short
<1>11. q[1].r.op \notin {"MOUNT", "UNMOUNT"}
    BY <1>2
<1> QED
    BY <1>1, <1>2, <1>7, <1>9, <1>10, <1>11, SettledPost

\* tfs_handle_write posts the call as it was made, with its text.
LEMMA SettledWrite ==
    ASSUME TInv, NEW q \in Seq(Messages), Reading(q), Settled(q), HandleWrite
    PROVE  q # <<>> /\ Reading(Tail(q))' /\ Settled(Tail(q))'
<1>1. PICK n : n = Atoi(fields[3])
    OBVIOUS
<1>2. /\ Handled("WRITE") /\ Parsed /\ UNCHANGED <<fhandler, tableV, clientV, inbox, historyV>>
      /\ Post(Atoi(fields[1]), [NoRequest EXCEPT !.op = "WRITE", !.fhandle = Atoi(fields[2]), !.len = n,
                                !.to_write = IF n = 0 THEN <<>> ELSE SubSeq(fields[4], 1, n)])
    BY <1>1 DEF HandleWrite, Handled
<1>3. PICK m \in Messages :
          /\ q # <<>> /\ m = q[1] /\ m.r \in Requests /\ CallType(m.c, m.r) /\ "WRITE" = m.r.op /\ Reading(Tail(q))'
          /\ Atoi(fields[1]) = m.sid /\ Atoi(fields[2]) = m.r.fhandle /\ fields[3] = Field(m.r.len)
          /\ fields[4] = m.r.to_write
    BY <1>2, AccessFields
<1>4. /\ m.r = [NoRequest EXCEPT !.op = "WRITE", !.fhandle = m.r.fhandle, !.len = m.r.len, !.to_write = m.r.to_write]
      /\ m.r.to_write \in Texts /\ m.r.len = Len(m.r.to_write)
    BY <1>3, CallFields DEF Messages
<1>5. PICK t \in Texts : t = m.r.to_write
    BY <1>4
<1>6. PICK l \in Nat : l = Len(t) /\ l = m.r.len /\ l > 0 /\ Atoi(Field(l)) = l /\ t \in Seq(Byte)
    BY <1>4, <1>5, WriteLength, TextType
<1>7. n = l
    BY <1>1, <1>3, <1>6
<1>8. SubSeq(fields[4], 1, n) = t
    <2>1. SubSeq(t, 1, Len(t)) = t
        BY <1>6, AnswerPieces
    <2> QED
        BY <1>3, <1>5, <1>6, <1>7, <2>1
<1>9. Post(m.sid, [NoRequest EXCEPT !.op = "WRITE", !.fhandle = m.r.fhandle, !.len = l, !.to_write = t])
    <2>1. (IF n = 0 THEN <<>> ELSE SubSeq(fields[4], 1, n)) = t
        BY <1>6, <1>7, <1>8
    <2> QED
        BY <1>2, <1>3, <1>7, <2>1, Zenon
<1>10. Post(q[1].sid, q[1].r) /\ Contract!Fits(q[1].r, q[1].r)
    BY <1>3, <1>4, <1>5, <1>6, <1>9, FitsSelf
<1>11. q[1].r.op \notin {"MOUNT", "UNMOUNT"} /\ Short(q[1].r)
    BY <1>3 DEF Short
<1> QED
    BY <1>2, <1>3, <1>10, <1>11, SettledPost

(***************************************************************************)
(* Answers.                                                                *)
(***************************************************************************)
\* The answer is in the pipe of a client for which nothing has been performed before.
LEMMA AnswerGiven ==
    ASSUME TInv, NEW c \in Clients, cpc[c] = "answer", Fresh(c), UNCHANGED <<clientV, spoilt>>,
           NEW p, NEW v \in Nat \cup {-1}, NEW d \in Seq(Byte),
           Answer(c, p, v, d), Contract!Fits(call[c][1], p), Atoi(Field(v)) = v,
           IF call[c][1].op = "READ" THEN (v = -1 /\ d = <<>>) \/ (v \in Nat /\ Len(d) = v) ELSE d = <<>>,
           call[c][1].op = "MOUNT" => v = -1 \/ (v \in Slots /\ Serves(v, c)')
    PROVE  Answered(c)' /\ Contract!Perform(c) /\ \A e \in Clients : e # c => Same(e)
<1>1. /\ inbox \in [Clients -> Seq(Byte)] /\ done = [e \in Clients |-> done[e]]
      /\ answer = [e \in Clients |-> answer[e]] /\ call[c] = <<call[c][1]>>
    BY DEF TInv, TypeOK, Shapes, ClientType
<1>2. /\ cpc' = cpc /\ session_id' = session_id /\ got' = got /\ call' = call /\ returned' = returned /\ spoilt' = spoilt
    BY DEF clientV
<1>3. done[c] = <<>> /\ answer[c] = <<>> /\ got[c] = <<>> /\ inbox[c] = <<>>
    BY DEF Fresh
<1>4. PICK a : a = [val |-> v, data |-> d]
    OBVIOUS
<1>5. done'[c] = <<p>> /\ answer'[c] = <<a>>
    BY <1>1, <1>3, <1>4 DEF Answer
<1>6. inbox'[c] = Field(v) \o d
    <2>1. inbox'[c] = (inbox[c] \o Field(v)) \o d
        BY <1>1, Zenon DEF Answer
    <2>2. <<>> \o Field(v) = Field(v)
        BY AnswerPieces, Zenon
    <2> QED
        BY <1>3, <2>1, <2>2, Zenon
<1>7. ASSUME NEW e \in Clients, e # c
      PROVE  Same(e)
    <2>1. done'[e] = done[e] /\ answer'[e] = answer[e] /\ inbox'[e] = inbox[e]
        BY <1>1, <1>7 DEF Answer
    <2> QED
        BY <1>2, <2>1, Zenon DEF Same
<1>8. AnsweredWith(c, p, v, d)'
    <2>1. /\ done'[c] = <<p>> /\ answer'[c] = <<[val |-> v, data |-> d]>>
          /\ cpc'[c] = "answer" /\ got'[c] = <<>> /\ call'[c] = call[c]
        BY <1>2, <1>3, <1>4, <1>5, Zenon
    <2> QED
        BY <1>6, <2>1, Zenon DEF AnsweredWith
<1>9. Contract!Perform(c)
    <2>1. call[c] # <<>>
        BY <1>1
    <2>2. Len(done'[c]) = 1 /\ Len(answer'[c]) = 1 /\ done'[c][1] = p
        <3>1. Len(<<p>>) = 1 /\ <<p>>[1] = p /\ Len(<<a>>) = 1
            OBVIOUS
        <3> QED
            BY <1>5, <3>1, Zenon
    <2>3. done' = [done EXCEPT ![c] = done'[c]] /\ answer' = [answer EXCEPT ![c] = answer'[c]]
        BY <1>1, <1>3, <1>4, <1>5 DEF Answer
    <2> QED
        BY <1>2, <1>3, <2>1, <2>2, <2>3, Zenon DEF Contract!Perform
<1>10. Answered(c)'
    BY <1>8, Zenon DEF Answered
<1> QED
    BY <1>7, <1>9, <1>10

\* The client of slot i is answered by its worker, or by main.
LEMMA SettledReply ==
    ASSUME TInv, NEW q \in Seq(Messages), Settled(q), NEW i \in Slots, NEW c \in Clients, c = fhandler[i],
           cpc[c] = "answer", Fresh(c), Absent(q, c), call[c][1].op # "MOUNT",
           NEW p, NEW v \in Nat \cup {-1}, NEW d \in Seq(Byte), Reply(i, p, v, d),
           UNCHANGED <<fhandler, free_sessions, clientV, spoilt>>,
           Contract!Fits(call[c][1], p), Atoi(Field(v)) = v,
           IF call[c][1].op = "READ" THEN (v = -1 /\ d = <<>>) \/ (v \in Nat /\ Len(d) = v) ELSE d = <<>>,
           \A j \in Slots : request'[j] = <<>> \/ (request'[j] = request[j] /\ (Active(j) => Caller(j) # c))
    PROVE  Settled(q)' /\ Contract!Perform(c)
<1>1. c # NoClient
    BY ByteAssumption DEF Letter
<1>2. Answer(c, p, v, d)
    BY <1>1, Zenon DEF Reply
<1>3. Answered(c)' /\ Contract!Perform(c) /\ \A e \in Clients : e # c => Same(e)
    BY <1>2, AnswerGiven, Zenon
<1>4. fhandler' = fhandler /\ free_sessions' = free_sessions /\ cpc' = cpc /\ call' = call /\ session_id' = session_id
    BY DEF clientV
<1>5. \A j \in Slots, e \in Clients : Serves(j, e) => Serves(j, e)'
    BY <1>4, Zenon DEF Serves
<1>6. Client(c)'
    <2>1. Client(c)
        BY DEF Settled
    <2>2. cpc[c] \in {"answer", "data"} /\ cpc[c] # "in" /\ cpc[c] # "out"
        OBVIOUS
    <2>3. session_id[c] \in Slots /\ Serves(session_id[c], c)
        BY <2>1, <2>2, Zenon DEF Client
    <2>4. (session_id[c] \in Slots /\ Serves(session_id[c], c))'
        BY <1>4, <1>5, <2>3, Zenon DEF Serves
    <2> QED
        BY <1>3, <1>4, <2>2, <2>4, Zenon DEF Client
<1>7. Free'
    <2>1. free_sessions \subseteq Slots /\ Free
        BY DEF TInv, TypeOK, Settled
    <2> QED
        BY <1>4, <2>1 DEF Free
<1> QED
    BY <1>3, <1>4, <1>5, <1>6, <1>7, OwnSlot

\* A worker performs its client's call and answers it.
LEMMA SettledSolve ==
    ASSUME TInv, NEW q \in Seq(Messages), Settled(q), NEW i \in Slots,
           ThreadOpen(i) \/ ThreadClose(i) \/ ThreadWrite(i) \/ ThreadRead(i)
    PROVE  Settled(q)' /\ \E c \in Clients : Contract!Perform(c)
<1>1. PICK o \in {"OPEN", "CLOSE", "WRITE", "READ"}, v \in Nat \cup {-1}, d \in Seq(Byte) :
          /\ Solve(i, o, v, d) /\ request[i] # <<>>
          /\ o = "OPEN" => v \in Handle \cup {-1}
          /\ o = "CLOSE" => v \in {0, -1}
          /\ o \in {"WRITE", "READ"} => v <= request[i][1].len
          /\ IF o = "READ" THEN (v = -1 /\ d = <<>>) \/ (v \in Nat /\ Len(d) = v) ELSE d = <<>>
    BY WorkerAnswers, Zenon
<1>2. PICK p : p = request[i][1]
    OBVIOUS
<1>3. /\ p.op = o /\ request' = [request EXCEPT ![i] = <<>>] /\ Reply(i, p, v, d)
      /\ UNCHANGED <<fhandler, free_sessions, clientV, spoilt>>
    BY <1>1, <1>2 DEF Solve, tableV
<1>4. Active(i) /\ Caller(i) = fhandler[i]
    BY <1>1, <1>2, <1>3 DEF Active, Caller
<1>5. PICK c \in Clients : c = fhandler[i] /\ Waits(q, c, p)
    BY <1>2, <1>4, Zenon DEF Settled, Posted, Waits
<1>6. /\ cpc[c] = "answer" /\ Fresh(c) /\ Absent(q, c) /\ Contract!Fits(call[c][1], p) /\ Short(p)
    BY <1>5, Zenon DEF Waits
<1>7. CallType(c, call[c][1])
    BY <1>6 DEF TInv, ClientType
<1>8. PICK r : r = call[c][1]
    OBVIOUS
<1>9. DOMAIN r = DOMAIN NoRequest /\ (r.op = "WRITE" => r.to_write \in Texts /\ r.len = Len(r.to_write))
    BY <1>7, <1>8, CallFields
<1>10. o = r.op /\ (o = "WRITE" => p.len = r.len)
    <2>1. p = [r EXCEPT !.len = p.len] /\ (p.len = r.len \/ (r.op = "READ" /\ p.len < r.len))
        BY <1>6, <1>8 DEF Contract!Fits
    <2>2. p.op = r.op
        BY <1>9, <2>1 DEF NoRequest
    <2> QED
        BY <1>3, <2>1, <2>2
<1>11. Atoi(Field(v)) = v
    <2>1. CASE o \in {"OPEN", "CLOSE"} \/ v = -1
        <3>1. v \in 0 .. 99 \cup {-1}
            <4>1. Handle \cup {-1} \subseteq 0 .. 99 \cup {-1} /\ {0, -1} \subseteq 0 .. 99 \cup {-1}
                BY HandleAssumption
            <4>2. v \in Handle \cup {-1} \/ v \in {0, -1}
                BY <1>1, <2>1
            <4> QED
                BY <4>1, <4>2
        <3> QED
            BY <3>1, AtoiHandle
    <2>2. CASE o \in {"WRITE", "READ"} /\ v # -1
        <3>1. PICK l \in Nat : l = p.len
            BY <1>1, <1>2 DEF TInv, TypeOK, RequestType
        <3>2. v \in 0 .. l
            BY <1>1, <1>2, <2>2, <3>1
        <3>3. Len(Digits[v]) <= INT_SIZE
            <4>1. CASE o = "READ"
                <5>1. \A k \in 0 .. p.len : Len(Digits[k]) <= INT_SIZE
                    BY <1>3, <1>6, <4>1 DEF Short
                <5> QED
                    BY <3>1, <3>2, <5>1
            <4>2. CASE o = "WRITE"
                <5>1. PICK t \in Texts : l = Len(t)
                    BY <1>9, <1>10, <3>1, <4>2
                <5>2. Len(Digits[l]) <= INT_SIZE
                    BY <5>1, WriteLength
                <5>3. PICK x \in Nat, y \in Nat : x = Len(Digits[v]) /\ y = Len(Digits[l])
                    BY <3>2, DigitsType
                <5>4. x <= y
                    BY <3>2, <5>3, DigitsMonotone
                <5> QED
                    BY <5>2, <5>3, <5>4, SizeAssumption
            <4> QED
                BY <2>2, <4>1, <4>2
        <3> QED
            BY <3>2, <3>3, AtoiField
    <2> QED
        BY <1>1, <2>1, <2>2
<1>12. \A j \in Slots : request'[j] = <<>> \/ (request'[j] = request[j] /\ (Active(j) => Caller(j) # c))
    <2>1. request = [k \in Slots |-> request[k]]
        BY DEF TInv, Shapes
    <2>2. request'[i] = <<>> /\ \A j \in Slots : j # i => request'[j] = request[j]
        BY <1>3, <2>1
    <2>3. Single
        BY DEF Settled
    <2> QED
        BY <1>4, <1>5, <2>2, <2>3, Zenon DEF Single
<1>13. IF call[c][1].op = "READ" THEN (v = -1 /\ d = <<>>) \/ (v \in Nat /\ Len(d) = v) ELSE d = <<>>
    BY <1>1, <1>8, <1>10
<1>14. call[c][1].op # "MOUNT"
    BY <1>1, <1>8, <1>10
<1> QED
    BY <1>3, <1>5, <1>6, <1>11, <1>12, <1>13, <1>14, SettledReply

\* main refuses a handle only if the call was made with -1.
LEMMA BadCall ==
    ASSUME TInv, NEW q \in Seq(Messages), Reading(q), Settled(q), BadHandle
    PROVE  \E m \in Messages :
               /\ q # <<>> /\ m = q[1] /\ m.c \in Clients /\ m.sid \in Slots /\ Queued(m) /\ CallType(m.c, m.r)
               /\ op = m.r.op /\ op \in {"CLOSE", "READ", "WRITE"} /\ m.r.fhandle = -1
               /\ Atoi(fields[1]) = m.sid /\ call[m.c] = <<m.r>> /\ fhandler[m.sid] = m.c
<1>1. op \in {"CLOSE", "READ", "WRITE"} /\ Len(fields) = 2 /\ Atoi(fields[2]) = -1
    BY DEF BadHandle
<1>2. q # <<>> /\ op = q[1].r.op /\ fields[1] = Part(q[1], 1) /\ fields[2] = Part(q[1], 2)
    BY <1>1 DEF Reading
<1>3. PICK m \in Messages : m = q[1]
    BY <1>2, QueueTail
<1>4. 1 \in 1 .. Len(q)
    BY <1>2, QueueTail
<1>5. Queued(m) /\ m.sid \in Slots /\ CallType(m.c, m.r)
    BY <1>3, <1>4, Zenon DEF Settled, Queued
<1>6. m.c \in Clients /\ m.r.fhandle \in Handle \cup {-1}
    BY DEF Messages, Requests
<1>7. m.sid \in 0 .. 99 \cup {-1}
    <2>1. \A i \in Slots : i \in 0 .. 99 \cup {-1}
        BY SizeAssumption DEF Slots
    <2> QED
        BY <1>5, <2>1
<1>8. m.r.fhandle \in 0 .. 99 \cup {-1}
    BY <1>6, HandleAssumption
<1>9. Part(m, 1) = Field(m.sid) /\ Part(m, 2) = Field(m.r.fhandle)
    BY <1>1, <1>2, <1>3 DEF Part
<1>10. Atoi(fields[1]) = m.sid /\ m.r.fhandle = -1
    BY <1>1, <1>2, <1>3, <1>7, <1>8, <1>9, AtoiHandle
<1>11. m.r.op # "MOUNT" /\ m.r.op # "UNMOUNT"
    BY <1>1, <1>2, <1>3
<1>12. call[m.c] = <<m.r>> /\ fhandler[m.sid] = m.c
    BY <1>5, <1>11, Zenon DEF Queued, Serves
<1> QED
    BY <1>1, <1>2, <1>3, <1>5, <1>6, <1>10, <1>12, Zenon

\* A close through -1 is answered by main, and its message has been read.
LEMMA SettledBadClose ==
    ASSUME TInv, NEW q \in Seq(Messages), Reading(q), Settled(q), HandleBadHandle, op = "CLOSE", ~spoilt
    PROVE  /\ q # <<>> /\ Reading(Tail(q))' /\ Settled(Tail(q))'
           /\ \E c \in Clients : Contract!Perform(c)
<1>1. /\ BadHandle /\ Handled("CLOSE") /\ Len(fields) = 2 /\ Atoi(fields[2]) = -1
      /\ fhandler' = fhandler /\ request' = request /\ free_sessions' = free_sessions
    BY DEF HandleBadHandle, BadHandle, tableV
<1>2. PICK m \in Messages :
          /\ q # <<>> /\ m = q[1] /\ m.c \in Clients /\ m.sid \in Slots /\ Queued(m) /\ CallType(m.c, m.r)
          /\ op = m.r.op /\ m.r.fhandle = -1
          /\ Atoi(fields[1]) = m.sid /\ call[m.c] = <<m.r>> /\ fhandler[m.sid] = m.c
    BY <1>1, BadCall, Zenon
<1>3. Parsed
    <2>1. op \in Ops /\ fields \in Seq(Seq(Byte)) /\ Parts(op) = 2
        BY DEF Ops, OpCode, Parts, TInv, TypeOK
    <2> QED
        BY <1>1, <2>1, LayoutValues
<1>4. Reading(Tail(q))'
    <2>1. \A k \in 1 .. Len(q) : CallType(q[k].c, q[k].r)
        BY Zenon DEF Settled, Queued
    <2>2. "CLOSE" \in Ops
        BY DEF Ops, OpCode
    <2> QED
        BY <1>1, <1>3, <2>1, <2>2, ReadingParsed, Zenon
<1>5. PICK t \in Seq(Messages) : t = Tail(q)
    BY <1>2, QueueTail
<1>6. m.r.op = "CLOSE" /\ q[1].r.op # "UNMOUNT" /\ m.r.op # "UNMOUNT" /\ m.r.op # "MOUNT"
    BY <1>2
<1>7. Settled(t) /\ Absent(t, m.c)
    BY <1>2, <1>5, <1>6, Dequeue
<1>8. cpc[m.c] = "answer" /\ Fresh(m.c)
    BY <1>2, <1>6, Zenon DEF Queued
<1>9. m.r = [NoRequest EXCEPT !.op = "CLOSE"]
    <2>1. m.r = [NoRequest EXCEPT !.op = "CLOSE", !.fhandle = -1]
        <3>1. m.r = [NoRequest EXCEPT !.op = "CLOSE", !.fhandle = m.r.fhandle]
            BY <1>2, <1>6, CallFields, ZenonT(60)
        <3> QED
            BY <1>2, <3>1, Zenon
    <2>2. [NoRequest EXCEPT !.op = "CLOSE", !.fhandle = -1] = [NoRequest EXCEPT !.op = "CLOSE"]
        <3>1. PICK h, e : h = -1 /\ e = <<>>
            OBVIOUS
        <3>2. NoRequest = [op |-> "none", fhandle |-> h, len |-> 0, name |-> e, flags |-> 0, to_write |-> e]
            BY <3>1, Zenon DEF NoRequest
        <3>3. PICK z : z = [op |-> "CLOSE", fhandle |-> h, len |-> 0, name |-> e, flags |-> 0, to_write |-> e]
            OBVIOUS
        <3>4. [NoRequest EXCEPT !.op = "CLOSE"] = z
            BY <3>2, <3>3
        <3>5. [z EXCEPT !.fhandle = h] = z
            BY <3>3
        <3>6. [NoRequest EXCEPT !.op = "CLOSE", !.fhandle = h] = [[NoRequest EXCEPT !.op = "CLOSE"] EXCEPT !.fhandle = h]
            OBVIOUS
        <3> QED
            BY <3>1, <3>4, <3>5, <3>6, Zenon
    <2> QED
        BY <2>1, <2>2, Zenon
<1>10. Reply(m.sid, m.r, -1, <<>>) /\ UNCHANGED <<fhandler, free_sessions, clientV, spoilt>>
    <2>1. Reply(m.sid, m.r, -1, <<>>)
        <3>1. Reply(Atoi(fields[1]), [NoRequest EXCEPT !.op = op], Atoi(fields[2]), <<>>)
            BY DEF HandleBadHandle
        <3> QED
            BY <1>1, <1>2, <1>9, <3>1, Zenon
    <2>2. spoilt' = spoilt
        <3>1. spoilt \in BOOLEAN
            BY DEF TInv, TypeOK
        <3>2. spoilt' = (spoilt \/ op # "CLOSE")
            BY DEF HandleBadHandle
        <3>3. ~(op # "CLOSE")
            OBVIOUS
        <3> QED
            BY <3>1, <3>2, <3>3, Zenon
    <2>3. UNCHANGED clientV
        BY <1>1 DEF Handled
    <2> QED
        BY <1>1, <2>1, <2>2, <2>3
<1>11. \A j \in Slots : request'[j] = <<>> \/ (request'[j] = request[j] /\ (Active(j) => Caller(j) # m.c))
    BY <1>1, <1>2, FirstAlone
<1>12. call[m.c][1] = m.r
    BY <1>2
<1>13. Contract!Fits(call[m.c][1], m.r) /\ call[m.c][1].op # "MOUNT" /\ call[m.c][1].op # "READ"
    <2>1. m.r \in Requests
        BY DEF Messages
    <2> QED
        BY <1>6, <1>12, <2>1, FitsSelf
<1>14. -1 \in Nat \cup {-1} /\ -1 \in 0 .. 99 \cup {-1} /\ <<>> \in Seq(Byte)
    BY EmptySeq
<1>15. Atoi(Field(-1)) = -1
    BY <1>14, AtoiHandle, Zenon
<1>16. IF call[m.c][1].op = "READ" THEN (-1 = -1 /\ <<>> = <<>>) \/ (-1 \in Nat /\ Len(<<>>) = -1)
                                   ELSE <<>> = <<>>
    BY <1>13
<1>17. Settled(t)' /\ Contract!Perform(m.c)
    BY <1>2, <1>7, <1>8, <1>10, <1>11, <1>13, <1>14, <1>15, <1>16, SettledReply, Zenon
<1> QED
    BY <1>2, <1>4, <1>5, <1>17, Zenon

\* The mount that main has read, and its client.
LEMMA MountRead ==
    ASSUME TInv, NEW q \in Seq(Messages), Reading(q), Settled(q), HandleMount
    PROVE  \E c \in Clients :
               /\ q # <<>> /\ Reading(Tail(q))' /\ Settled(Tail(q)) /\ Absent(Tail(q), c) /\ q[1].c = c
               /\ cpc[c] = "answer" /\ call[c] = <<MountOf(c)>> /\ MountOf(c) \in Requests /\ Fresh(c)
               /\ CString(fields[1]) = <<c>>
<1>1. op = "MOUNT" /\ Handled("MOUNT") /\ Parsed /\ "MOUNT" \in Ops
    BY DEF HandleMount, Handled, Ops, OpCode
<1>2. PICK m \in Messages :
          /\ q # <<>> /\ m = q[1] /\ m.c \in Clients /\ m.r \in Requests /\ CallType(m.c, m.r) /\ Queued(m) /\ "MOUNT" = m.r.op
          /\ \A k \in 1 .. Parts("MOUNT") : fields[k] = Part(m, k)
          /\ Handled("MOUNT") => Reading(Tail(q))'
    BY <1>1, Taken, Zenon
<1>3. CString(fields[1]) = <<m.c>>
    <2>1. 1 \in 1 .. Parts("MOUNT")
        BY DEF Parts
    <2>2. Part(m, 1) = NameField(m.c)
        BY <1>2 DEF Part
    <2>3. m.c \in Letter
        BY <1>2 DEF Letter
    <2> QED
        BY <1>2, <2>1, <2>2, <2>3, NameFieldType
<1>4. m.r.op = "MOUNT" /\ m.r.op # "UNMOUNT" /\ q[1].r.op = "MOUNT" /\ q[1].r.op # "UNMOUNT"
    BY <1>2
<1>5. Settled(Tail(q)) /\ Absent(Tail(q), m.c)
    BY <1>2, <1>4, Dequeue
<1>6. cpc[m.c] = "answer" /\ call[m.c] = <<m.r>> /\ Fresh(m.c)
    BY <1>2, <1>4, Zenon DEF Queued
<1>7. m.r = MountOf(m.c)
    BY <1>2, <1>4, CallFields, Zenon DEF MountOf
<1> QED
    BY <1>1, <1>2, <1>3, <1>5, <1>6, <1>7, Zenon

\* tfs_handle_mount refuses the client whose call was read, or gives a slot's worker its mount.
LEMMA SettledMount ==
    ASSUME TInv, NEW q \in Seq(Messages), Reading(q), Settled(q), HandleMount
    PROVE  /\ q # <<>> /\ Reading(Tail(q))' /\ Settled(Tail(q))'
           /\ UNCHANGED <<clientV, historyV, spoilt>> \/ \E c \in Clients : Contract!Perform(c)
<1>1. PICK c \in Clients :
          /\ q # <<>> /\ Reading(Tail(q))' /\ Settled(Tail(q)) /\ Absent(Tail(q), c) /\ q[1].c = c
          /\ cpc[c] = "answer" /\ call[c] = <<MountOf(c)>> /\ MountOf(c) \in Requests /\ Fresh(c)
          /\ CString(fields[1]) = <<c>>
    BY MountRead, Zenon
<1>2. PICK t \in Seq(Messages) : t = Tail(q)
    BY <1>1, QueueTail
<1>3. /\ \/ Answer(c, MountOf(c), -1, <<>>) /\ request' = request /\ free_sessions' = free_sessions
         \/ /\ free_sessions # {} /\ Post(Min(free_sessions), MountOf(c))
            /\ free_sessions' = free_sessions \ {Min(free_sessions)} /\ UNCHANGED <<inbox, historyV>>
      /\ fhandler' = fhandler /\ UNCHANGED <<clientV, spoilt>>
    <2>1. PICK d \in Clients :
              /\ CString(fields[1]) = <<d>>
              /\ \/ Answer(d, MountOf(d), -1, <<>>) /\ request' = request /\ free_sessions' = free_sessions
                 \/ /\ free_sessions # {} /\ Post(Min(free_sessions), MountOf(d))
                    /\ free_sessions' = free_sessions \ {Min(free_sessions)} /\ UNCHANGED <<inbox, historyV>>
        BY DEF HandleMount, tableV
    <2>2. d = c
        BY <1>1, <2>1
    <2>3. fhandler' = fhandler /\ UNCHANGED <<clientV, spoilt>>
        BY DEF HandleMount, Handled
    <2> QED
        BY <2>1, <2>2, <2>3
<1>4. call[c][1] = MountOf(c) /\ MountOf(c).op = "MOUNT"
    BY <1>1 DEF MountOf, NoRequest
<1>5. Contract!Fits(call[c][1], MountOf(c)) /\ Short(MountOf(c))
    BY <1>1, <1>4, FitsSelf DEF Short
<1>6. \A i \in Slots : Active(i) => Caller(i) # c
    BY <1>1, FirstAlone
<1>7. cpc' = cpc /\ call' = call /\ session_id' = session_id /\ got' = got
    BY <1>3 DEF clientV
<1>8. CASE Answer(c, MountOf(c), -1, <<>>) /\ request' = request /\ free_sessions' = free_sessions
    <2>1. -1 \in Nat \cup {-1} /\ -1 \in 0 .. 99 \cup {-1} /\ <<>> \in Seq(Byte) /\ -1 = -1
        BY EmptySeq
    <2>2. Atoi(Field(-1)) = -1
        BY <2>1, AtoiHandle, Zenon
    <2>3. call[c][1].op # "READ"
        BY <1>4
    <2>4. IF call[c][1].op = "READ" THEN (-1 = -1 /\ <<>> = <<>>) \/ (-1 \in Nat /\ Len(<<>>) = -1) ELSE <<>> = <<>>
        BY <2>3
    <2>5. Answered(c)' /\ Contract!Perform(c) /\ \A e \in Clients : e # c => Same(e)
        BY <1>1, <1>3, <1>5, <1>8, <2>1, <2>2, <2>4, AnswerGiven, Zenon
    <2>6. Client(c)'
        <3>1. cpc'[c] # "in" /\ cpc'[c] # "out" /\ call'[c][1].op = "MOUNT"
            BY <1>1, <1>4, <1>7
        <3> QED
            BY <2>5, <3>1, Zenon DEF Client
    <2>7. Settled(t)'
        BY <1>1, <1>2, <1>3, <1>6, <1>8, <2>5, <2>6, Own
    <2> QED
        BY <1>1, <1>2, <2>5, <2>7, Zenon
<1>9. CASE /\ free_sessions # {} /\ Post(Min(free_sessions), MountOf(c))
           /\ free_sessions' = free_sessions \ {Min(free_sessions)} /\ UNCHANGED <<inbox, historyV>>
    <2>1. PICK i \in free_sessions : i = Min(free_sessions)
        BY <1>9, MinFree DEF TInv, TypeOK
    <2>2. i \in Slots /\ free_sessions \subseteq Slots
        BY DEF TInv, TypeOK
    <2>3. request[i] = <<>> /\ fhandler[i] = NoClient
        BY DEF Settled, Free
    <2>4. request'[i] = <<MountOf(c)>> /\ \A j \in Slots : j # i => request'[j] = request[j]
        <3>1. request' = [request EXCEPT ![i] = <<MountOf(c)>>] /\ request = [j \in Slots |-> request[j]]
            BY <1>9, <2>1 DEF Post, TInv, Shapes
        <3> QED
            BY <2>2, <3>1
    <2>5. request'[i] # <<>> /\ request'[i][1] = MountOf(c) /\ MountOf(c).op # "UNMOUNT" /\ MountOf(c).name = <<c>>
          /\ MountOf(c).name[1] = c
        <3>1. <<MountOf(c)>> # <<>> /\ <<MountOf(c)>>[1] = MountOf(c)
            OBVIOUS
        <3>2. MountOf(c).name = <<c>> /\ <<c>>[1] = c
            BY DEF MountOf, NoRequest
        <3> QED
            BY <1>4, <2>4, <3>1, <3>2
    <2>6. Active(i)' /\ Caller(i)' = c
        BY <1>4, <2>5, Zenon DEF Active, Caller
    <2>7. /\ inbox' = inbox /\ done' = done /\ answer' = answer
        BY <1>9 DEF historyV
    <2>8. Posted(t, i)'
        <3>1. Fresh(c)'
            BY <1>1, <1>7, <2>7, Zenon DEF Fresh
        <3>2. call'[c][1].op # "UNMOUNT"
            BY <1>4, <1>7
        <3>3. Waits(t, c, MountOf(c))'
            BY <1>1, <1>2, <1>5, <1>7, <3>1, <3>2, Zenon DEF Waits
        <3>4. Waits(t, Caller(i), request[i][1])'
            BY <2>5, <2>6, <3>3, Zenon DEF Waits, Fresh
        <3> QED
            BY <1>3, <2>3, <2>4, <2>5, <2>6, <3>4, Zenon DEF Posted
    <2>9. Single'
        <3>1. \A j \in Slots : j # i => (Active(j)' = Active(j) /\ Caller(j)' = Caller(j))
            BY <1>3, <2>4, Zenon DEF Active, Caller
        <3>2. Single
            BY DEF Settled
        <3> QED
            BY <1>6, <2>6, <3>1, <3>2, Zenon DEF Single
    <2>10. Free'
        <3>1. \A j \in free_sessions' : j \in free_sessions /\ j # i /\ j \in Slots
            BY <1>9, <2>1, <2>2
        <3> QED
            BY <1>3, <2>4, <3>1 DEF Settled, Free
    <2>11. \A j \in Slots, d \in Clients : Serves(j, d) => Serves(j, d)'
        BY <1>3, <2>4, <2>5, Zenon DEF Serves
    <2>12. \A j \in Slots : request'[j] = request[j] \/ Posted(t, j)'
        BY <2>4, <2>8, Zenon
    <2>13. Settled(t)'
        BY <1>1, <1>2, <1>3, <1>9, <2>9, <2>10, <2>11, <2>12, SettledStays
    <2> QED
        BY <1>1, <1>2, <1>3, <1>9, <2>13
<1> QED
    BY <1>3, <1>8, <1>9

\* tfs_thread_mount gives the slot its client and answers the call.
LEMMA SettledThreadMount ==
    ASSUME TInv, NEW q \in Seq(Messages), Settled(q), NEW i \in Slots, ThreadMount(i)
    PROVE  Settled(q)' /\ \E c \in Clients : Contract!Perform(c)
<1>1. PICK p : p = request[i][1]
    OBVIOUS
<1>2. PICK c \in Clients : p.name = <<c>> /\ fhandler' = [fhandler EXCEPT ![i] = c] /\ Answer(c, p, i, <<>>)
    BY <1>1 DEF ThreadMount
<1>3. /\ request[i] # <<>> /\ p.op = "MOUNT" /\ request' = [request EXCEPT ![i] = <<>>]
      /\ free_sessions' = free_sessions /\ UNCHANGED <<clientV, spoilt>>
    BY <1>1 DEF ThreadMount, tableV
<1>4. Active(i) /\ Caller(i) = c
    <2>1. <<c>>[1] = c
        OBVIOUS
    <2>2. Active(i)
        BY <1>1, <1>3 DEF Active
    <2>3. Caller(i) = p.name[1]
        BY <1>1, <1>3, Zenon DEF Caller
    <2> QED
        BY <1>2, <2>1, <2>2, <2>3
<1>5. Waits(q, c, p) /\ fhandler[i] = NoClient
    BY <1>1, <1>3, <1>4, Zenon DEF Settled, Posted
<1>6. cpc[c] = "answer" /\ Fresh(c) /\ Contract!Fits(call[c][1], p) /\ Absent(q, c)
    BY <1>5, Zenon DEF Waits
<1>7. call[c][1].op = "MOUNT"
    <2>1. CallType(c, call[c][1])
        BY <1>6 DEF TInv, ClientType
    <2>2. PICK r : r = call[c][1]
        OBVIOUS
    <2>3. DOMAIN r = DOMAIN NoRequest
        BY <2>1, <2>2, CallFields
    <2>4. p = [r EXCEPT !.len = p.len]
        BY <1>6, <2>2 DEF Contract!Fits
    <2>5. p.op = r.op
        BY <2>3, <2>4 DEF NoRequest
    <2> QED
        BY <1>3, <2>2, <2>5
<1>8. /\ fhandler'[i] = c /\ \A j \in Slots : j # i => fhandler'[j] = fhandler[j]
      /\ request'[i] = <<>> /\ \A j \in Slots : j # i => request'[j] = request[j]
    <2>1. fhandler \in [Slots -> Clients \cup {NoClient}] /\ request = [j \in Slots |-> request[j]]
        BY DEF TInv, TypeOK, Shapes
    <2> QED
        BY <1>2, <1>3, <2>1
<1>9. Serves(i, c)'
    BY <1>8, Zenon DEF Serves
<1>10. Answered(c)' /\ Contract!Perform(c) /\ \A e \in Clients : e # c => Same(e)
    <2>1. i \in Nat \cup {-1} /\ i \in 0 .. 99 \cup {-1} /\ <<>> \in Seq(Byte)
        BY EmptySeq, SizeAssumption DEF Slots
    <2>2. Atoi(Field(i)) = i
        BY <2>1, AtoiHandle, Zenon
    <2>3. call[c][1].op # "READ"
        BY <1>7
    <2>4. IF call[c][1].op = "READ" THEN (i = -1 /\ <<>> = <<>>) \/ (i \in Nat /\ Len(<<>>) = i) ELSE <<>> = <<>>
        BY <2>3
    <2> QED
        BY <1>2, <1>3, <1>6, <1>9, <2>1, <2>2, <2>4, AnswerGiven, Zenon
<1>11. Client(c)'
    <2>1. cpc'[c] # "in" /\ cpc'[c] # "out" /\ call'[c][1].op = "MOUNT"
        BY <1>3, <1>6, <1>7 DEF clientV
    <2> QED
        BY <1>10, <2>1, Zenon DEF Client
<1>12. \A j \in Slots, d \in Clients : d # c /\ Serves(j, d) => Serves(j, d)'
    <2>1. \A d \in Clients : d # NoClient
        BY ByteAssumption DEF Letter
    <2> QED
        BY <1>5, <1>8, <2>1, Zenon DEF Serves
<1>13. \A j \in Slots : \/ request'[j] = <<>>
                        \/ request'[j] = request[j] /\ fhandler'[j] = fhandler[j] /\ (Active(j) => Caller(j) # c)
    BY <1>4, <1>8, Zenon DEF Settled, Single
<1>14. Free'
    <2>1. i \notin free_sessions /\ free_sessions \subseteq Slots
        BY <1>3 DEF Settled, Free, TInv, TypeOK
    <2> QED
        BY <1>3, <1>8, <2>1 DEF Settled, Free
<1>15. Settled(q)'
    BY <1>6, <1>10, <1>11, <1>12, <1>13, <1>14, OwnSlot
<1> QED
    BY <1>10, <1>15

\* tfs_handle_unmount posts the unmount to the worker of the client's slot, or does nothing.
LEMMA SettledUnmount ==
    ASSUME TInv, NEW q \in Seq(Messages), Reading(q), Settled(q), HandleUnmount
    PROVE  q # <<>> /\ Reading(Tail(q))' /\ Settled(Tail(q))'
<1>1. /\ op = "UNMOUNT" /\ Handled("UNMOUNT") /\ Parsed /\ "UNMOUNT" \in Ops
      /\ UNCHANGED <<fhandler, clientV, inbox, historyV>>
    BY DEF HandleUnmount, Handled, Ops, OpCode
<1>2. PICK m \in Messages :
          /\ q # <<>> /\ m = q[1] /\ m.c \in Clients /\ m.sid \in Slots /\ Queued(m) /\ "UNMOUNT" = m.r.op
          /\ Atoi(Field(m.sid)) = m.sid
          /\ \A k \in 1 .. Parts("UNMOUNT") : fields[k] = Part(m, k)
          /\ Handled("UNMOUNT") => Reading(Tail(q))'
    BY <1>1, Taken, Zenon
<1>3. Atoi(fields[1]) = m.sid
    <2>1. 1 \in 1 .. Parts("UNMOUNT")
        BY DEF Parts
    <2>2. Part(m, 1) = Field(m.sid)
        BY <1>2 DEF Part
    <2> QED
        BY <1>2, <2>1, <2>2
<1>4. PICK i \in Slots, c \in Clients : i = m.sid /\ c = m.c
    BY <1>2
<1>5. m.r.op # "MOUNT" /\ m.r.op = "UNMOUNT"
    BY <1>2
<1>6. Serves(i, c) /\ fhandler[i] = c
    BY <1>2, <1>4, <1>5, Zenon DEF Queued, Serves
<1>7. PICK t \in Seq(Messages) : t = Tail(q)
    BY <1>2, QueueTail
<1>8. Settled(t) /\ \A k \in 1 .. Len(t) : t[k].c = c => t[k].r.op = "MOUNT"
    BY <1>2, <1>4, <1>7, Dequeue
<1>9. PICK r : r = [NoRequest EXCEPT !.op = "UNMOUNT"]
    OBVIOUS
<1>10. \/ request' = request
       \/ request' = [request EXCEPT ![i] = <<r>>]
    BY <1>3, <1>4, <1>9 DEF HandleUnmount, Post
<1>11. free_sessions' = free_sessions
    BY DEF HandleUnmount, tableV
<1>12. CASE request' = request
    <2>1. Settled(t)'
        BY <1>1, <1>8, <1>11, <1>12, SettledSame
    <2> QED
        BY <1>1, <1>2, <1>7, <2>1, Zenon
<1>13. CASE request' = [request EXCEPT ![i] = <<r>>]
    <2>1. request'[i] = <<r>> /\ \A j \in Slots : j # i => request'[j] = request[j]
        <3>1. request = [j \in Slots |-> request[j]]
            BY DEF TInv, Shapes
        <3> QED
            BY <1>13, <3>1
    <2>2. request'[i] # <<>> /\ request'[i][1] = r /\ r.op = "UNMOUNT"
        <3>1. <<r>> # <<>> /\ <<r>>[1] = r
            OBVIOUS
        <3> QED
            BY <1>9, <2>1, <3>1 DEF NoRequest
    <2>3. ~Active(i)'
        BY <2>2, Zenon DEF Active
    <2>4. Posted(t, i)'
        BY <2>1, <2>2, <2>3, Zenon DEF Posted
    <2>5. /\ fhandler' = fhandler /\ inbox' = inbox /\ done' = done /\ answer' = answer
          /\ cpc' = cpc /\ session_id' = session_id /\ call' = call /\ got' = got
        BY <1>1 DEF clientV, historyV
    <2>6. Single'
        <3>1. \A j \in Slots : j # i => (Active(j)' = Active(j) /\ Caller(j)' = Caller(j))
            BY <2>1, <2>5, Zenon DEF Active, Caller
        <3>2. Single
            BY DEF Settled
        <3> QED
            BY <2>3, <3>1, <3>2, Zenon DEF Single
    <2>7. Free'
        <3>1. c # NoClient
            BY ByteAssumption DEF Letter
        <3>2. i \notin free_sessions /\ free_sessions \subseteq Slots
            BY <1>6, <3>1 DEF Settled, Free, TInv, TypeOK
        <3> QED
            BY <1>11, <2>1, <2>5, <3>2 DEF Settled, Free
    <2>8. Client(c)'
        <3>1. Client(c)
            BY DEF Settled
        <3>2. cpc[c] = "out" \/ (cpc[c] = "answer" /\ call[c][1].op = "MOUNT" /\ Fresh(c))
            BY <1>2, <1>4, <1>5, Zenon DEF Queued
        <3>3. Fresh(c)' = Fresh(c)
            BY <2>5, Zenon DEF Fresh
        <3>4. CASE cpc[c] = "out"
            <4>1. call'[c] = <<>> /\ Fresh(c)' /\ cpc'[c] # "in" /\ cpc'[c] \notin {"answer", "data"}
                BY <2>5, <3>1, <3>3, <3>4 DEF Client
            <4> QED
                BY <4>1, Zenon DEF Client
        <3>5. CASE cpc[c] = "answer" /\ call[c][1].op = "MOUNT" /\ Fresh(c)
            <4>1. cpc'[c] = "answer" /\ call'[c][1].op = "MOUNT" /\ Fresh(c)' /\ cpc'[c] # "in" /\ cpc'[c] # "out"
                BY <2>5, <3>3, <3>5
            <4> QED
                BY <4>1, Zenon DEF Client
        <3> QED
            BY <3>2, <3>4, <3>5
    <2>9. ASSUME NEW d \in Clients
          PROVE  \/ \A j \in Slots : Serves(j, d) => Serves(j, d)'
                 \/ Client(d)' /\ \A k \in 1 .. Len(t) : t[k].c = d => t[k].r.op = "MOUNT"
        <3>1. CASE d = c
            BY <1>8, <2>8, <3>1
        <3>2. CASE d # c
            BY <1>6, <2>1, <2>5, <3>2, Zenon DEF Serves
        <3> QED
            BY <3>1, <3>2
    <2>10. \A j \in Slots : request'[j] = request[j] \/ Posted(t, j)'
        BY <2>1, <2>4, Zenon
    <2>11. Settled(t)'
        BY <1>1, <1>8, <2>5, <2>6, <2>7, <2>9, <2>10, SettledStays
    <2> QED
        BY <1>1, <1>2, <1>7, <2>11, Zenon
<1> QED
    BY <1>10, <1>12, <1>13

\* tfs_thread_unmount takes the slot from its client, and frees it if it can.
LEMMA SettledThreadUnmount ==
    ASSUME TInv, NEW q \in Seq(Messages), Settled(q), NEW i \in Slots, ThreadUnmount(i)
    PROVE  Settled(q)'
<1>1. /\ request[i] # <<>> /\ request[i][1].op = "UNMOUNT" /\ UNCHANGED <<clientV, inbox, historyV>>
      /\ fhandler' = [fhandler EXCEPT ![i] = NoClient]
      /\ \/ free_sessions' = free_sessions \cup {i} /\ request' = [request EXCEPT ![i] = <<>>]
         \/ free_sessions' = free_sessions /\ request' = request
    BY DEF ThreadUnmount
<1>2. fhandler \in [Slots -> Clients \cup {NoClient}] /\ request = [j \in Slots |-> request[j]] /\ free_sessions \subseteq Slots
    BY DEF TInv, TypeOK, Shapes
<1>3. /\ fhandler'[i] = NoClient /\ \A j \in Slots : j # i => fhandler'[j] = fhandler[j] /\ request'[j] = request[j]
      /\ \/ free_sessions' = free_sessions \cup {i} /\ request'[i] = <<>>
         \/ free_sessions' = free_sessions /\ request'[i] = request[i]
    BY <1>1, <1>2
<1>4. ~Active(i) /\ ~Active(i)' /\ \A d : ~Serves(i, d)
    BY <1>1, <1>3, Zenon DEF Active, Serves
<1>5. \A j \in Slots : j # i => (Active(j)' = Active(j) /\ Caller(j)' = Caller(j))
    BY <1>3, Zenon DEF Active, Caller
<1>6. Single'
    BY <1>4, <1>5, Zenon DEF Settled, Single
<1>7. Free'
    <2>1. i \notin free_sessions
        BY <1>1 DEF Settled, Free
    <2> QED
        BY <1>2, <1>3, <2>1 DEF Settled, Free
<1>8. \A j \in Slots, d \in Clients : Serves(j, d) => Serves(j, d)'
    BY <1>3, <1>4, Zenon DEF Serves
<1>9. ASSUME NEW j \in Slots
      PROVE  \/ request'[j] = request[j] /\ (Active(j) => fhandler'[j] = fhandler[j])
             \/ Posted(q, j)'
    <2>1. CASE j # i
        BY <1>3, <2>1
    <2>2. CASE j = i
        BY <1>3, <1>4, <2>2, Zenon DEF Posted
    <2> QED
        BY <2>1, <2>2
<1> QED
    BY <1>1, <1>6, <1>7, <1>8, <1>9, SettledStays

(***************************************************************************)
(* The invariant, step by step.                                            *)
(***************************************************************************)
\* The invariant holds in the next state for the messages q.
LEMMA Held ==
    ASSUME NEW q \in Seq(Messages), Reading(q)', Settled(q)'
    PROVE  WInv'
BY Zenon DEF WInv

\* No message, no client in a call.
LEMMA WireInit ==
    ASSUME Init
    PROVE  WInv
<1>1. /\ server_pipe = <<>> /\ op = "none" /\ buffer = <<>> /\ fhandler = [i \in Slots |-> NoClient]
      /\ free_sessions = Slots /\ request = [i \in Slots |-> <<>>] /\ cpc = [c \in Clients |-> "out"]
      /\ inbox = [c \in Clients |-> <<>>] /\ got = inbox /\ call = inbox /\ done = inbox /\ answer = inbox
    BY DEF Init
<1>2. PICK q \in Seq(Messages) : q = <<>> /\ Len(q) = 0
    BY EmptySeq
<1>3. Reading(q)
    BY <1>1, <1>2, StreamEmpty, Zenon DEF Reading
<1>4. \A k \in 1 .. Len(q) : FALSE
    BY <1>2
<1>5. ASSUME NEW c \in Clients
      PROVE  Client(c)
    <2>1. cpc[c] = "out" /\ call[c] = <<>> /\ done[c] = <<>> /\ answer[c] = <<>> /\ got[c] = <<>> /\ inbox[c] = <<>>
        BY <1>1
    <2>2. Fresh(c)
        BY <2>1 DEF Fresh
    <2>3. cpc[c] # "in" /\ cpc[c] \notin {"answer", "data"}
        BY <2>1
    <2> QED
        BY <2>1, <2>2, <2>3, Zenon DEF Client
<1>6. \A i \in Slots : request[i] = <<>> /\ fhandler[i] = NoClient
    BY <1>1
<1>7. Single /\ Free /\ \A i \in Slots : Posted(q, i)
    BY <1>1, <1>6, Zenon DEF Single, Free, Posted, Active
<1>8. Settled(q)
    BY <1>4, <1>5, <1>7, Zenon DEF Settled, Ordered
<1> QED
    BY <1>3, <1>8, Zenon DEF WInv

\* spoilt is never taken back.
LEMMA SpoiltStays ==
    ASSUME TInv, [Next]_vars, spoilt
    PROVE  spoilt'
<1>1. CASE \E c \in Clients : NewCall(c)
    <2>1. PICK c \in Clients : \E m : Send(c, m)
        BY <1>1, Sent
    <2> QED
        BY <2>1 DEF Send
<1>2. CASE \E c \in Clients : ClientStep(c)
    BY <1>2 DEF ClientStep, Receive, ReceiveData, Return
<1>3. CASE MainStep
    BY <1>3 DEF MainStep, MainRead, Command, HandleMount, HandleUnmount, HandleOpen, HandleClose, HandleRead,
                HandleWrite, HandleBadHandle
<1>4. CASE \E i \in Slots : WorkerStep(i)
    BY <1>4 DEF WorkerStep, ThreadMount, ThreadUnmount, ThreadOpen, ThreadClose, ThreadWrite, ThreadRead, Solve
<1>5. CASE UNCHANGED vars
    BY <1>5 DEF vars
<1> QED
    BY <1>1, <1>2, <1>3, <1>4, <1>5 DEF Next

(***************************************************************************)
(* Every step keeps the invariant, and is a step of RemoteCalls or none.   *)
(***************************************************************************)
\* What the contract sees of a step.
Step == Contract!Next \/ UNCHANGED Contract!vars

\* A step the contract does not see.
LEMMA Unseen ==
    ASSUME call' = call, done' = done, answer' = answer, returned' = returned, spoilt' = spoilt
    PROVE  Step
BY DEF Step, Contract!vars

\* A call performs once.
LEMMA Seen ==
    ASSUME \E c \in Clients : Contract!Call(c) \/ Contract!Perform(c) \/ Contract!Return(c)
    PROVE  Step
BY DEF Step, Contract!Next

\* A client makes a call.
LEMMA StepSent ==
    ASSUME TInv, NEW q \in Seq(Messages), Reading(q), Settled(q), NEW c \in Clients, NewCall(c)
    PROVE  WInv' /\ Step
<1>1. PICK m : Send(c, m)
    BY Sent
<1>2. \A k \in 1 .. Len(q) : CallType(q[k].c, q[k].r)
    BY Zenon DEF Settled, Queued
<1>3. Reading(Append(q, m))' /\ Settled(Append(q, m))'
    BY <1>1, <1>2, ReadingSent, SettledSent
<1>4. m \in Messages
    BY <1>1 DEF Send
<1>5. PICK u \in Seq(Messages) : u = Append(q, m)
    BY <1>4, QueueAppend
<1>6. WInv'
    BY <1>3, <1>5, Held, Zenon
<1>7. CASE m.r.op = "UNMOUNT"
    BY <1>1, <1>6, <1>7, Unseen DEF Send
<1>8. CASE m.r.op # "UNMOUNT"
    <2>1. /\ call' = [call EXCEPT ![c] = <<m.r>>] /\ returned' = [returned EXCEPT ![c] = <<>>]
          /\ done' = done /\ answer' = answer /\ spoilt' = spoilt /\ cpc[c] \in {"out", "in"}
        BY <1>1, <1>8 DEF Send
    <2>2. call = [e \in Clients |-> call[e]]
        BY DEF TInv, Shapes
    <2>3. call'[c] = <<m.r>>
        BY <2>1, <2>2
    <2>4. call[c] = <<>>
        BY <2>1 DEF Settled, Client
    <2>5. Len(<<m.r>>) = 1
        OBVIOUS
    <2>6. Contract!Call(c)
        BY <2>1, <2>3, <2>4, <2>5, Zenon DEF Contract!Call
    <2> QED
        BY <1>6, <2>6, Seen
<1> QED
    BY <1>7, <1>8

\* A client reads its answer, or returns it.
LEMMA StepClient ==
    ASSUME TInv, NEW q \in Seq(Messages), Reading(q), Settled(q), NEW c \in Clients, ClientStep(c)
    PROVE  WInv' /\ Step
<1>1. server_pipe' = server_pipe /\ op' = op /\ fields' = fields /\ buffer' = buffer /\ spoilt' = spoilt
    BY DEF ClientStep, Receive, ReceiveData, Return, mainV
<1>2. Reading(q)'
    BY <1>1, ReadingStays
<1>3. Settled(q)'
    BY SettledReceive, SettledReceiveData, SettledReturn DEF ClientStep
<1>4. WInv'
    BY <1>2, <1>3, Held
<1>5. CASE Receive(c) \/ ReceiveData(c)
    <2>1. call' = call /\ done' = done /\ answer' = answer /\ returned' = returned
        BY <1>5 DEF Receive, ReceiveData, historyV
    <2> QED
        BY <1>1, <1>4, <2>1, Unseen
<1>6. CASE Return(c)
    <2>1. PICK p, v, d : Returns(c, p, v, d)
        BY <1>6, Returned
    <2>2. returned' = [returned EXCEPT ![c] = <<[val |-> v, data |-> d]>>] /\ AnsweredWith(c, p, v, d)
        BY <2>1 DEF Returns
    <2>3. answer[c] = <<[val |-> v, data |-> d]>> /\ done[c] = <<p>>
        BY <2>2, Zenon DEF AnsweredWith
    <2>4. <<p>> # <<>>
        OBVIOUS
    <2>5. returned' = [returned EXCEPT ![c] = answer[c]] /\ done[c] # <<>>
        BY <2>2, <2>3, <2>4, Zenon
    <2>6. /\ call' = [call EXCEPT ![c] = <<>>] /\ done' = [done EXCEPT ![c] = <<>>]
          /\ answer' = [answer EXCEPT ![c] = <<>>]
        BY <1>6 DEF Return
    <2>7. Contract!Return(c)
        BY <1>1, <2>5, <2>6, Zenon DEF Contract!Return
    <2> QED
        BY <1>4, <2>7, Seen
<1> QED
    BY <1>5, <1>6 DEF ClientStep

\* main takes a message from the queue.
LEMMA HeldTail ==
    ASSUME NEW q \in Seq(Messages), q # <<>>, Reading(Tail(q))', Settled(Tail(q))'
    PROVE  WInv'
<1>1. PICK t \in Seq(Messages) : t = Tail(q)
    BY QueueTail
<1> QED
    BY <1>1, Held, Zenon

\* main reads a field, or handles a message.
LEMMA StepMain ==
    ASSUME TInv, ~spoilt, NEW q \in Seq(Messages), Reading(q), Settled(q), MainStep
    PROVE  WInv' /\ Step
<1>1. \A k \in 1 .. Len(q) : CallType(q[k].c, q[k].r)
    BY Zenon DEF Settled, Queued
<1>2. CASE MainRead \/ Command
    <2>1. UNCHANGED <<fhandler, request, free_sessions, clientV, inbox, historyV, spoilt>>
        BY <1>2 DEF MainRead, Command, tableV
    <2>2. Reading(q)'
        BY <1>1, <1>2, ReadingMain, ReadingCommand
    <2>3. Settled(q)'
        BY <2>1, SettledSame
    <2>4. call' = call /\ done' = done /\ answer' = answer /\ returned' = returned /\ spoilt' = spoilt
        BY <2>1 DEF clientV, historyV
    <2> QED
        BY <2>2, <2>3, <2>4, Held, Unseen
<1>3. CASE HandleMount
    <2>1. q # <<>> /\ Reading(Tail(q))' /\ Settled(Tail(q))'
        BY <1>3, SettledMount
    <2>2. CASE UNCHANGED <<clientV, historyV, spoilt>>
        <3>1. call' = call /\ done' = done /\ answer' = answer /\ returned' = returned /\ spoilt' = spoilt
            BY <2>2 DEF clientV, historyV
        <3> QED
            BY <2>1, <3>1, HeldTail, Unseen
    <2>3. CASE \E c \in Clients : Contract!Perform(c)
        BY <2>1, <2>3, HeldTail, Seen
    <2> QED
        BY <1>3, <2>2, <2>3, SettledMount
<1>4. CASE HandleUnmount \/ HandleOpen \/ HandleClose \/ HandleRead \/ HandleWrite
    <2>1. UNCHANGED <<clientV, historyV, spoilt>>
        BY <1>4 DEF HandleUnmount, HandleOpen, HandleClose, HandleRead, HandleWrite, Handled
    <2>2. call' = call /\ done' = done /\ answer' = answer /\ returned' = returned /\ spoilt' = spoilt
        BY <2>1 DEF clientV, historyV
    <2>3. q # <<>> /\ Reading(Tail(q))' /\ Settled(Tail(q))'
        BY <1>4, SettledUnmount, SettledOpen, SettledClose, SettledRead, SettledWrite
    <2> QED
        BY <2>2, <2>3, HeldTail, Unseen
<1>5. CASE HandleBadHandle /\ op = "CLOSE"
    BY <1>5, SettledBadClose, HeldTail, Seen
<1>6. CASE HandleBadHandle /\ op # "CLOSE"
    <2>1. BadHandle /\ spoilt' = (spoilt \/ op # "CLOSE")
        BY <1>6 DEF HandleBadHandle
    <2>2. PICK m \in Messages :
              /\ m.c \in Clients /\ op = m.r.op /\ op \in {"CLOSE", "READ", "WRITE"} /\ m.r.fhandle = -1
              /\ call[m.c] = <<m.r>>
        BY <2>1, BadCall, Zenon
    <2>3. spoilt'
        BY <1>6, <2>1
    <2>4. WInv'
        BY <2>3, Zenon DEF WInv
    <2>5. call[m.c] # <<>> /\ call[m.c][1] = m.r
        BY <2>2
    <2>6. m.r.op \in {"READ", "WRITE"}
        BY <1>6, <2>2
    <2>7. Contract!Leave
        BY <2>2, <2>3, <2>5, <2>6, Zenon DEF Contract!Leave
    <2> QED
        BY <2>4, <2>7 DEF Step, Contract!Next
<1> QED
    BY <1>2, <1>3, <1>4, <1>5, <1>6 DEF MainStep

\* All steps.
LEMMA WireNext ==
    ASSUME TInv, WInv, [Next]_vars
    PROVE  WInv' /\ Step
<1>1. CASE spoilt
    <2>1. spoilt'
        BY <1>1, SpoiltStays
    <2>2. Contract!Leave
        BY <1>1, <2>1 DEF Contract!Leave
    <2> QED
        BY <2>1, <2>2, Zenon DEF WInv, Step, Contract!Next
<1>2. CASE ~spoilt
    <2>1. PICK q \in Seq(Messages) : Reading(q) /\ Settled(q)
        BY <1>2 DEF WInv
    <2>2. CASE \E c \in Clients : NewCall(c)
        BY <2>1, <2>2, StepSent
    <2>3. CASE \E c \in Clients : ClientStep(c)
        BY <2>1, <2>3, StepClient
    <2>4. CASE MainStep
        BY <1>2, <2>1, <2>4, StepMain
    <2>5. CASE \E i \in Slots : WorkerStep(i)
        <3>1. PICK i \in Slots : WorkerStep(i)
            BY <2>5
        <3>2. server_pipe' = server_pipe /\ op' = op /\ fields' = fields /\ buffer' = buffer
            BY <3>1 DEF WorkerStep, ThreadMount, ThreadUnmount, ThreadOpen, ThreadClose, ThreadWrite, ThreadRead, Solve,
                        mainV
        <3>3. Reading(q)'
            BY <2>1, <3>2, ReadingStays
        <3>4. CASE ThreadUnmount(i)
            <4>1. call' = call /\ done' = done /\ answer' = answer /\ returned' = returned /\ spoilt' = spoilt
                BY <3>4 DEF ThreadUnmount, clientV, historyV
            <4> QED
                BY <2>1, <3>3, <3>4, <4>1, SettledThreadUnmount, Held, Unseen
        <3>5. CASE ~ThreadUnmount(i)
            <4>1. Settled(q)' /\ \E c \in Clients : Contract!Perform(c)
                BY <2>1, <3>1, <3>5, SettledThreadMount, SettledSolve DEF WorkerStep
            <4> QED
                BY <3>3, <4>1, Held, Seen
        <3> QED
            BY <3>4, <3>5
    <2>6. CASE UNCHANGED vars
        <3>1. /\ server_pipe' = server_pipe /\ op' = op /\ fields' = fields /\ buffer' = buffer
              /\ UNCHANGED <<fhandler, request, free_sessions, clientV, inbox, historyV, spoilt>>
            BY <2>6 DEF vars, mainV, tableV
        <3>2. Reading(q)'
            BY <2>1, <3>1, ReadingStays
        <3>3. Settled(q)'
            BY <2>1, <3>1, SettledSame
        <3>4. call' = call /\ done' = done /\ answer' = answer /\ returned' = returned /\ spoilt' = spoilt
            BY <3>1 DEF clientV, historyV
        <3> QED
            BY <3>2, <3>3, <3>4, Held, Unseen
    <2> QED
        BY <2>2, <2>3, <2>4, <2>5, <2>6 DEF Next
<1> QED
    BY <1>1, <1>2

\* The system does what RemoteCalls promises: unless a client reads or writes through -1, each
\* call is performed once and with its own arguments, only a read can be cut short, and it
\* returns the answer to it, however the messages of all clients follow each other in one
\* stream, for any number of clients, sessions and calls.
THEOREM ImplementsContract == Spec => ImplementsRemoteCalls
<1>1. Init => TInv /\ WInv /\ Contract!Init
    <2>1. Init => Contract!Init
        BY DEF Init, Contract!Init
    <2> QED
        BY <2>1, TypeInit, WireInit
<1>2. TInv /\ WInv /\ [Next]_vars => TInv' /\ WInv' /\ [Contract!Next]_(Contract!vars)
    BY TypeNext, WireNext DEF Step
<1> QED
    BY <1>1, <1>2, PTL DEF Spec, ImplementsRemoteCalls, Contract!Spec

(***************************************************************************)
(* Short reads.                                                            *)
(***************************************************************************)
\* main inside a message finds all of the next field.
LEMMA FieldThere ==
    ASSUME TInv, NEW q \in Seq(Messages), Reading(q), Settled(q), op # "none", ~Parsed
    PROVE  server_pipe # <<>>
<1>1. op \in Ops /\ fields \in Seq(Seq(Byte)) /\ Len(fields) <= Parts(op)
    BY DEF TInv, TypeOK, MainType
<1>2. Asked \in Nat \ {0} /\ Len(fields) # Parts(op)
    BY <1>1, LayoutValues
<1>3. PICK j \in 0 .. 3 : j = Len(fields) /\ j < Parts(op)
    <2>1. PICK i \in Nat : i = Len(fields)
        BY <1>1, LenProperties
    <2>2. PICK x \in 0 .. 4 : x = Parts(op)
        BY DEF Parts
    <2>3. i < x
        BY <1>1, <1>2, <2>1, <2>2
    <2>4. i \in 0 .. 3
        BY <2>3
    <2> QED
        BY <2>1, <2>2, <2>3, <2>4
<1>4. q # <<>> /\ op = q[1].r.op
    BY DEF Reading
<1>5. PICK m : m = q[1]
    OBVIOUS
<1>6. m.c \in Clients /\ m.sid \in Nat /\ CallType(m.c, m.r) /\ op = m.r.op
    <2>1. 1 \in 1 .. Len(q) /\ m.c \in Clients /\ m.sid \in Nat
        BY <1>4, <1>5, QueueTail
    <2>2. CallType(m.c, m.r)
        BY <1>5, <2>1, Zenon DEF Settled, Queued
    <2> QED
        BY <1>4, <1>5, <2>1, <2>2
<1>7. \A k \in 1 .. Len(fields) : fields[k] = Part(m, k)
    BY <1>5 DEF Reading
<1>8. PICK t \in Seq(Byte) : server_pipe = Rest(m, j) \o t
    BY <1>3, <1>5 DEF Reading
<1>9. PICK x \in Seq(Byte) : x = Part(m, j + 1)
    <2>1. j + 1 \in 1 .. 4
        OBVIOUS
    <2> QED
        BY <1>6, <2>1, PartType
<1>10. PICK y \in Seq(Byte) : y = Rest(m, j + 1) /\ Rest(m, j) = x \o y
    <2>1. j + 1 \in 0 .. 4
        OBVIOUS
    <2> QED
        BY <1>6, <1>9, <2>1, RestStep
<1>11. Len(x) = Asked
    BY <1>3, <1>6, <1>7, <1>9, AskedPart
<1>12. Len(server_pipe) = Len(x) + Len(y) + Len(t)
    <2>1. Len(x \o y) = Len(x) + Len(y) /\ x \o y \in Seq(Byte)
        BY SplitBytes, Zenon
    <2>2. Len((x \o y) \o t) = Len(x \o y) + Len(t)
        BY <2>1, SplitBytes, Zenon
    <2> QED
        BY <1>8, <1>10, <2>1, <2>2, Zenon
<1>13. Len(y) \in Nat /\ Len(t) \in Nat
    BY LenProperties
<1>14. Len(server_pipe) # 0
    BY <1>2, <1>11, <1>12, <1>13
<1> QED
    BY <1>14

\* A client has nothing of its answer or all it has asked for, and does not wait for data.
LEMMA AnswerWhole ==
    ASSUME TInv, NEW q \in Seq(Messages), Settled(q), NEW c \in Clients, cpc[c] \in {"answer", "data"}
    PROVE  /\ Have(c) \notin {0, Want(c)} => LongWrite(c)
           /\ cpc[c] = "data" /\ Have(c) < Want(c) => inbox[c] # <<>>
<1>1. Client(c)
    BY DEF Settled
<1>2. CASE cpc[c] = "answer" /\ Fresh(c)
    <2>1. got[c] = <<>> /\ cpc[c] # "data"
        BY <1>2 DEF Fresh
    <2>2. Have(c) = Len(got[c])
        BY <2>1 DEF Have
    <2>3. Have(c) = 0
        BY <2>1, <2>2
    <2> QED
        BY <2>1, <2>3
<1>3. CASE Answered(c)
    <2>1. PICK p, v, d : AnsweredWith(c, p, v, d)
        BY <1>3 DEF Answered
    <2>2. /\ d \in Seq(Byte) /\ v \in Nat \cup {-1}
          /\ IF call[c][1].op = "READ" THEN (v = -1 /\ d = <<>>) \/ (v \in Nat /\ Len(d) = v)
                                       ELSE d = <<>>
          /\ \/ cpc[c] = "answer" /\ got[c] = <<>>
             \/ cpc[c] = "answer" /\ got[c] = Field(v)
             \/ cpc[c] = "data" /\ v \in Nat /\ got[c] = Field(v) /\ inbox[c] = d
             \/ cpc[c] = "data" /\ v \in Nat /\ got[c] = Field(v) \o d
        BY <2>1, Zenon DEF AnsweredWith
    <2>3. PICK w, h, l : w = Want(c) /\ h = Have(c) /\ l = call[c][1].len
        OBVIOUS
    <2>4. /\ cpc[c] = "answer" => w = (IF call[c][1].op = "WRITE" THEN l ELSE INT_SIZE)
          /\ call[c][1].op = "WRITE" => l >= INT_SIZE
          /\ cpc[c] = "data" => w = v /\ call[c][1].op = "READ"
          /\ cpc[c] = "answer" /\ got[c] = <<>> => h = 0
          /\ cpc[c] = "answer" /\ got[c] = Field(v) => h = INT_SIZE
          /\ cpc[c] = "data" /\ got[c] = Field(v) => h = 0
          /\ cpc[c] = "data" /\ got[c] = Field(v) \o d => h = v
        BY <2>1, <2>3, AnswerStage
    <2>5. call[c] # <<>> /\ CallType(c, call[c][1])
        BY DEF TInv, ClientType
    <2>6. l \in Nat
        BY <2>3, <2>5, CallFields
    <2>7. CASE cpc[c] = "answer"
        <3>1. ASSUME h \notin {0, w}
              PROVE  call[c][1].op = "WRITE" /\ l > INT_SIZE
            BY <2>2, <2>4, <2>6, <2>7, <3>1, SizeAssumption
        <3> QED
            BY <2>3, <2>5, <2>7, <3>1 DEF LongWrite
    <2>8. CASE cpc[c] = "data"
        <3>1. w = v /\ (h = 0 \/ h = v) /\ v \in Nat
            BY <2>2, <2>4, <2>8
        <3>2. ASSUME h < w
              PROVE  inbox[c] # <<>>
            <4>1. h = 0 /\ v > 0
                BY <3>1, <3>2
            <4>2. got[c] # Field(v) \o d
                BY <2>4, <2>8, <4>1
            <4>3. inbox[c] = d
                BY <2>2, <2>8, <4>2
            <4>4. Len(d) = v
                BY <2>2, <2>4, <2>8, <3>1
            <4>5. Len(d) # 0
                BY <4>1, <4>4
            <4> QED
                BY <4>3, <4>5
        <3> QED
            BY <2>3, <3>1, <3>2
    <2> QED
        BY <2>7, <2>8
<1> QED
    BY <1>1, <1>2, <1>3, Zenon DEF Client

\* Unless bytes of a message were left behind, main never waits in the middle of one, and no
\* client finds a part of what it has asked for, but in a tfs_write of more bytes than its
\* answer has: that slait asks for the full length again after a short read does no harm.
THEOREM ShortReads == Spec => []NoShortReads
<1>1. Init => TInv /\ WInv
    BY TypeInit, WireInit
<1>2. TInv /\ WInv /\ [Next]_vars => TInv' /\ WInv'
    BY TypeNext, WireNext
<1>3. TInv /\ WInv => NoShortReads
    <2>1. SUFFICES ASSUME TInv, WInv, ~spoilt
                   PROVE  /\ buffer = <<>>
                          /\ op # "none" => Parsed \/ BadHandle \/ server_pipe # <<>>
                          /\ \A c \in Clients :
                                /\ cpc[c] \in {"answer", "data"} /\ Have(c) \notin {0, Want(c)} => LongWrite(c)
                                /\ cpc[c] = "data" /\ Have(c) < Want(c) => inbox[c] # <<>>
        BY Zenon DEF NoShortReads
    <2>2. PICK q \in Seq(Messages) : Reading(q) /\ Settled(q)
        BY <2>1 DEF WInv
    <2>3. buffer = <<>>
        BY <2>2 DEF Reading
    <2>4. op # "none" => Parsed \/ server_pipe # <<>>
        BY <2>1, <2>2, FieldThere
    <2>5. ASSUME NEW c \in Clients
          PROVE  /\ cpc[c] \in {"answer", "data"} /\ Have(c) \notin {0, Want(c)} => LongWrite(c)
                 /\ cpc[c] = "data" /\ Have(c) < Want(c) => inbox[c] # <<>>
        <3>1. cpc[c] = "data" => cpc[c] \in {"answer", "data"}
            OBVIOUS
        <3> QED
            BY <2>1, <2>2, <3>1, AnswerWhole, Zenon
    <2> QED
        BY <2>3, <2>4, <2>5, Zenon
<1> QED
    BY <1>1, <1>2, <1>3, PTL DEF Spec
=============================================================================
