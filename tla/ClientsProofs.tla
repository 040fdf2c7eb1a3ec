---------------------------- MODULE ClientsProofs ----------------------------
(***************************************************************************)
(* What TLAPS proves of Clients, for every set of callers and any number   *)
(* of messages: callers get the events as they were sent, and nobody gets  *)
(* nil from Next without an error.                                         *)
(***************************************************************************)
EXTENDS Clients, FiniteSetTheorems, SequenceTheorems, TLAPS

-----------------------------------------------------------------------------
(* Messages, and what they are on the wire.                                *)

LEMMA MessageMade ==
  ASSUME TypeOK, NEW e \in Events
  PROVE  /\ Message(e) \in Responses
         /\ Message(e).Event = "heartbeat" <=> Message(e).Data = Nil
<1>. DEFINE numbered == {i \in DOMAIN sent : sent[i].Event # "heartbeat"}
<1>1. Cardinality(numbered) \in Nat
  <2>1. IsFiniteSet(1 .. Len(sent))
    BY FS_Interval DEF TypeOK
  <2>2. numbered \subseteq 1 .. Len(sent)
    BY DEF TypeOK
  <2>3. IsFiniteSet(numbered)
    BY <2>1, <2>2, FS_Subset
  <2>. QED  BY <2>3, FS_CardinalityType
<1>2. e \in {"heartbeat", "init", "update", "error"}
  BY DEF Events
<1>3. Len(sent) \in Nat
  BY DEF TypeOK
<1>. HIDE DEF numbered
<1>4. Message(e) =
        [Id    |-> IF e \in {"heartbeat", "error"} THEN 0
                   ELSE Cardinality(numbered) + 1,
         Event |-> e,
         Data  |-> IF e = "heartbeat" THEN Nil ELSE Len(sent) + 1]
  BY DEF Message, numbered
<1>. QED  BY <1>1, <1>2, <1>3, <1>4, ClientsAssumption
       DEF Responses, Ids, Kinds, Texts

LEMMA TextLines ==
  ASSUME NEW m \in Responses
  PROVE  /\ generateMessage(m) \in Seq(Lines)
         /\ Len(generateMessage(m)) = IF m.Data = Nil THEN 3 ELSE 4
<1>1. /\ Line("id", m.Id) \in Lines /\ Line("event", m.Event) \in Lines
      /\ Line("data", m.Data) \in Lines /\ Blank \in Lines
  BY DEF Responses, Line, Blank, Lines
<1>. QED  BY <1>1 DEF generateMessage

LEMMA CutLines ==
  ASSUME NEW text \in Seq(Lines), NEW c \in Cut(text)
  PROVE  /\ c \in Seq(Lines) /\ Len(c) <= Len(text)
         /\ \A p \in DOMAIN c :
              \/ c[p] = text[p]
              \/ /\ p = Len(c)
                 /\ c[p] \in {Line("none", Part), Line(text[p].key, Part)}
<1>1. CASE \E i \in 0 .. Len(text) : c = SubSeq(text, 1, i)
  BY <1>1, SubSeqProperties
<1>2. CASE \E i \in DOMAIN text : \E key \in {"none", text[i].key} :
             c = SubSeq(text, 1, i - 1) \o <<Line(key, Part)>>
  <2>0. PICK i \in DOMAIN text : \E key \in {"none", text[i].key} :
               c = SubSeq(text, 1, i - 1) \o <<Line(key, Part)>>
    BY <1>2
  <2>1. PICK key \in {"none", text[i].key} :
               c = SubSeq(text, 1, i - 1) \o <<Line(key, Part)>>
    BY <2>0
  <2>2. /\ i \in 1 .. Len(text) /\ SubSeq(text, 1, i - 1) \in Seq(Lines)
        /\ Len(SubSeq(text, 1, i - 1)) = i - 1
        /\ \A p \in 1 .. i - 1 : SubSeq(text, 1, i - 1)[p] = text[p]
    BY SubSeqProperties
  <2>3. Line(key, Part) \in Lines
    <3>1. text[i] \in Lines
      OBVIOUS
    <3>2. text[i].key \in {"none", "id", "event", "data"}
      BY <3>1 DEF Lines
    <3>. QED  BY <3>2, <2>1 DEF Lines, Line, Ids, Kinds, Texts
  <2>. DEFINE before == SubSeq(text, 1, i - 1)
              last == Line(key, Part)
  <2>. HIDE DEF before, last
  <2>4. /\ c = before \o <<last>> /\ before \in Seq(Lines) /\ last \in Lines
        /\ Len(before) = i - 1 /\ \A p \in 1 .. i - 1 : before[p] = text[p]
    BY <2>1, <2>2, <2>3 DEF before, last
  <2>5. c \in Seq(Lines) /\ Len(c) = i
    BY <2>2, <2>4
  <2>6. ASSUME NEW p \in 1 .. i - 1 PROVE c[p] = text[p]
    BY <2>2, <2>4
  <2>7. c[i] = last
    BY <2>2, <2>4
  <2>8. last \in {Line("none", Part), Line(text[i].key, Part)}
    BY DEF last
  <2>9. Len(c) <= Len(text) /\ DOMAIN c = 1 .. i
    BY <2>2, <2>5
  <2>10. ASSUME NEW p \in DOMAIN c
         PROVE  \/ c[p] = text[p]
                \/ /\ p = Len(c)
                   /\ c[p] \in {Line("none", Part), Line(text[p].key, Part)}
    <3>1. CASE p = i
      BY <3>1, <2>5, <2>7, <2>8
    <3>2. CASE p # i
      BY <3>2, <2>2, <2>6, <2>9
    <3>. QED  BY <3>1, <3>2
  <2>. QED  BY <2>5, <2>9, <2>10
<1>. QED  BY <1>1, <1>2 DEF Cut

LEMMA Sized ==
  ASSUME TypeOK, NEW n \in 1 .. Len(sent)
  PROVE  /\ sent[n] \in Responses
         /\ Size[n] = IF lib = Grpc THEN 1
                      ELSE IF sent[n].Data = Nil THEN 3 ELSE 4
         /\ Full[n] \in 1 .. Size[n]
         /\ TextOf[n] \in Seq(Lines \union Responses)
         /\ Len(TextOf[n]) = Size[n]
<1>1. sent[n] \in Responses /\ n # 0
  BY DEF TypeOK
<1>2. Http # Grpc
  <2>1. "client" \in Http /\ "client" \notin Grpc
    BY DEF Http, Grpc
  <2>. QED  BY <2>1
<1>3. CASE lib = Http
  <2>1. TextOf[n] = generateMessage(sent[n])
    BY <1>3 DEF TextOf
  <2>2. TextOf[n] \in Seq(Lines \union Responses)
    BY <1>1, <2>1, TextLines, SeqMonotonic
  <2>3. Len(TextOf[n]) = IF sent[n].Data = Nil THEN 3 ELSE 4
    BY <1>1, <2>1, TextLines
  <2>4. Size[n] = IF sent[n].Data = Nil THEN 3 ELSE 4
    BY <1>1, <2>3 DEF Size
  <2>5. Full[n] = IF sent[n].Data = Nil THEN 2 ELSE 3
    BY <1>1, <1>2, <1>3 DEF Full
  <2>. QED  BY <1>1, <1>2, <1>3, <2>2, <2>3, <2>4, <2>5
<1>4. CASE lib = Grpc
  <2>1. TextOf[n] = <<sent[n]>>
    BY <1>2, <1>4 DEF TextOf
  <2>2. TextOf[n] \in Seq(Lines \union Responses) /\ Len(TextOf[n]) = 1
    BY <1>1, <2>1
  <2>3. Size[n] = 1
    BY <1>1, <2>2 DEF Size
  <2>4. Full[n] = 1
    BY <1>1, <1>4 DEF Full
  <2>. QED  BY <1>1, <1>4, <2>2, <2>3, <2>4
<1>. QED  BY <1>3, <1>4 DEF TypeOK

(* What was sent before stays what it was. *)
LEMMA TextKept ==
  ASSUME TypeOK, NEW m \in Responses, sent' = Append(sent, m), lib' = lib,
         NEW n \in 0 .. Len(sent)
  PROVE  /\ Size'[n] = Size[n] /\ Full'[n] = Full[n]
         /\ n # 0 => sent'[n] = sent[n] /\ TextOf'[n] = TextOf[n]
<1>1. n # 0 => sent'[n] = sent[n]
  BY DEF TypeOK
<1>2. n # 0 => TextOf'[n] = TextOf[n]
  BY <1>1 DEF TextOf
<1>. QED  BY <1>1, <1>2 DEF Size, Full

-----------------------------------------------------------------------------
(* The server and the connection.                                          *)

(* What the end of the text of message m can be on the wire. *)
Sendable(lines, text) ==
  /\ lines \in Seq(Lines \union Responses) /\ Len(lines) <= Len(text)
  /\ \A p \in DOMAIN lines :
       \/ lines[p] = text[p]
       \/ /\ lib = Http /\ conn' = "eof" /\ p = Len(lines)
          /\ lines[p] \in {Line("none", Part), Line(text[p].key, Part)}
  /\ conn' = "up" => Len(lines) = Len(text)

LEMMA Concatenated ==
  ASSUME NEW S, NEW a \in Seq(S), NEW b \in Seq(S)
  PROVE  /\ a \o b \in Seq(S) /\ Len(a \o b) = Len(a) + Len(b)
         /\ \A i \in 1 .. Len(a) : (a \o b)[i] = a[i]
         /\ \A i \in 1 .. Len(b) : (a \o b)[Len(a) + i] = b[i]
OBVIOUS

LEMMA Transmitted ==
  ASSUME TypeOK, WireInv, conn = "up", lib' = lib,
         NEW m \in Responses, sent' = Append(sent, m),
         NEW lines,
         Sendable(lines, IF lib = Http THEN generateMessage(m) ELSE <<m>>),
         Transmit(lines)
  PROVE  /\ wire' \in Seq(Lines \union Responses)
         /\ origin' \in Seq(Nat \X Nat)
         /\ WireInv' /\ origin'[1] = origin[1]
         /\ sent' \in Seq(Responses) /\ Len(sent') = Len(sent) + 1
<1>0. PICK N \in Nat, L \in Nat : N = Len(sent) /\ L = Len(wire)
  BY DEF TypeOK
<1>. DEFINE text == IF lib = Http THEN generateMessage(m) ELSE <<m>>
            added == [p \in 1 .. Len(lines) |-> <<N + 1, p>>]
<1>1. /\ N \in Nat /\ L \in Nat
      /\ N = Len(sent) /\ L = Len(wire) /\ Len(origin) = L + 1 /\ Len(lines) \in Nat
      /\ sent' \in Seq(Responses) /\ Len(sent') = N + 1 /\ sent'[N + 1] = m
      /\ wire \in Seq(Lines \union Responses) /\ origin \in Seq(Nat \X Nat)
      /\ lines \in Seq(Lines \union Responses)
  BY <1>0 DEF TypeOK, WireInv, Sendable
<1>2. /\ added \in Seq(Nat \X Nat) /\ Len(added) = Len(lines)
      /\ \A p \in 1 .. Len(lines) : added[p] = <<N + 1, p>>
  <2>1. \A p \in 1 .. Len(lines) : <<N + 1, p>> \in Nat \X Nat
    BY <1>1
  <2>. QED  BY <1>1, <2>1
<1>3. TextOf'[N + 1] = text
  BY <1>1 DEF TextOf
<1>4. Sendable(lines, text) /\ Len(text) >= 1
  <2>1. Len(generateMessage(m)) >= 1
    <3>1. Len(generateMessage(m)) = IF m.Data = Nil THEN 3 ELSE 4
      BY TextLines
    <3>. QED  BY <3>1
  <2>2. Len(<<m>>) >= 1
    OBVIOUS
  <2>. QED  BY <2>1, <2>2
<1>5. wire' = wire \o lines /\ origin' = origin \o added
  BY <1>1 DEF Transmit
<1>. HIDE DEF text, added
<1>30. Size'[N + 1] = Len(text)
  <2>1. N + 1 # 0 /\ N + 1 \in 0 .. Len(sent')
    BY <1>1
  <2>. QED  BY <1>3, <2>1 DEF Size
<1>6. /\ wire' \in Seq(Lines \union Responses) /\ Len(wire') = L + Len(lines)
      /\ \A j \in 1 .. L : wire'[j] = wire[j]
      /\ \A p \in 1 .. Len(lines) : wire'[L + p] = lines[p]
  BY <1>1, <1>5
<1>7. /\ origin' \in Seq(Nat \X Nat) /\ Len(origin') = L + 1 + Len(lines)
      /\ \A j \in 1 .. L + 1 : origin'[j] = origin[j]
      /\ \A p \in 1 .. Len(lines) : origin'[L + 1 + p] = <<N + 1, p>>
  <2>. DEFINE Pairs == Nat \X Nat
  <2>1. origin \in Seq(Pairs) /\ added \in Seq(Pairs)
    BY <1>1, <1>2
  <2>. HIDE DEF Pairs
  <2>2. /\ origin \o added \in Seq(Pairs)
        /\ Len(origin \o added) = L + 1 + Len(lines)
        /\ \A j \in 1 .. L + 1 : (origin \o added)[j] = origin[j]
        /\ \A p \in 1 .. Len(lines) : (origin \o added)[L + 1 + p] = added[p]
    <3>1. Len(origin) = L + 1 /\ Len(added) = Len(lines)
      BY <1>1, <1>2
    <3>2. /\ origin \o added \in Seq(Pairs)
          /\ Len(origin \o added) = Len(origin) + Len(added)
          /\ \A j \in 1 .. Len(origin) : (origin \o added)[j] = origin[j]
          /\ \A q \in 1 .. Len(added) : (origin \o added)[Len(origin) + q] = added[q]
      BY <2>1, Concatenated
    <3>. QED  BY <3>1, <3>2
  <2>. QED  BY <2>2, <1>2, <1>5 DEF Pairs
<1>8. /\ DOMAIN wire = 1 .. L /\ DOMAIN origin = 1 .. L + 1
      /\ DOMAIN wire' = 1 .. L + Len(lines)
      /\ DOMAIN origin' = 1 .. L + 1 + Len(lines) /\ DOMAIN lines = 1 .. Len(lines)
  BY <1>1, <1>6, <1>7
<1>9. \A n \in 0 .. N : /\ Size'[n] = Size[n]
                        /\ n # 0 => TextOf'[n] = TextOf[n]
  BY <1>1, TextKept
<1>10. Placed'
  <2>. SUFFICES ASSUME NEW j \in 1 .. L + 1 + Len(lines)
                PROVE  LET o == origin'[j]
                       IN  /\ o[1] \in 0 .. N + 1
                           /\ IF o[1] = 0 THEN j = 1 /\ o[2] = 0
                                          ELSE o[2] \in 1 .. Size'[o[1]]
    BY <1>1, <1>8 DEF Placed
  <2>1. CASE j \in 1 .. L + 1
    <3>1. /\ origin[j][1] \in 0 .. N
          /\ IF origin[j][1] = 0 THEN j = 1 /\ origin[j][2] = 0
                                ELSE origin[j][2] \in 1 .. Size[origin[j][1]]
      BY <2>1, <1>1, <1>8 DEF WireInv, Placed
    <3>2. origin'[j] = origin[j] /\ Size'[origin[j][1]] = Size[origin[j][1]]
      BY <2>1, <3>1, <1>7, <1>9
    <3>3. origin[j][1] \in 0 .. N + 1
      BY <3>1, <1>1, SMTT(20)
    <3>. QED  BY <3>1, <3>2, <3>3
  <2>2. CASE j \notin 1 .. L + 1
    <3>1. PICK p \in 1 .. Len(lines) : j = L + 1 + p
      <4>1. j - (L + 1) \in 1 .. Len(lines) /\ j = L + 1 + (j - (L + 1))
        BY <2>2, <1>1
      <4>. QED  BY <4>1
    <3>2. origin'[j] = <<N + 1, p>>
      BY <3>1, <1>7
    <3>3. p \in 1 .. Size'[N + 1] /\ N + 1 # 0 /\ N + 1 \in 0 .. N + 1
      BY <1>1, <1>30, <1>4, SMTT(20) DEF Sendable
    <3>. QED  BY <3>2, <3>3
  <2>. QED  BY <2>1, <2>2
<1>11. Chained'
  <2>. SUFFICES ASSUME NEW j \in 1 .. L + Len(lines)
                PROVE  Follows(origin[j + 1], origin[j])'
    BY <1>8 DEF Chained
  <2>1. CASE j \in 1 .. L
    <3>0. j \in 1 .. L + 1 /\ j + 1 \in 1 .. L + 1
      BY <2>1, <1>1
    <3>1. Follows(origin[j + 1], origin[j]) /\ origin[j][1] \in 0 .. N
      BY <3>0, <2>1, <1>1, <1>8 DEF WireInv, Chained, Placed
    <3>2. origin'[j] = origin[j] /\ origin'[j + 1] = origin[j + 1]
      BY <3>0, <1>7
    <3>. QED  BY <3>1, <3>2, <1>9 DEF Follows
  <2>2. CASE j = L + 1
    <3>0. 1 \in 1 .. Len(lines) /\ L + 1 \in 1 .. L + 1 /\ j + 1 = L + 1 + 1
      BY <2>2, <1>1, <1>8
    <3>1. origin'[j] = <<N, Size[N]>>
      BY <2>2, <3>0, <1>1, <1>7 DEF WireInv
    <3>2. origin'[j + 1] = <<N + 1, 1>>
      BY <3>0, <1>7
    <3>3. Size'[N] = Size[N] /\ ~(Size[N] < Size[N])
      <4>1. Size[N] \in Nat
        BY <1>1, Sized DEF Size
      <4>. QED  BY <4>1, <1>1, <1>9, SMTT(20)
    <3>. QED  BY <3>1, <3>2, <3>3 DEF Follows
  <2>3. CASE j \notin 1 .. L + 1
    <3>1. PICK p \in 1 .. Len(lines) : j = L + 1 + p /\ p + 1 \in 1 .. Len(lines)
      <4>1. /\ j - (L + 1) \in 1 .. Len(lines) /\ j = L + 1 + (j - (L + 1))
            /\ j - (L + 1) + 1 \in 1 .. Len(lines)
        BY <2>3, <1>1
      <4>. QED  BY <4>1
    <3>0. j + 1 = L + 1 + (p + 1)
      BY <3>1, <1>1
    <3>2. origin'[j] = <<N + 1, p>> /\ origin'[j + 1] = <<N + 1, p + 1>>
      BY <3>0, <3>1, <1>7
    <3>3. p < Size'[N + 1]
      BY <3>1, <1>1, <1>30, <1>4 DEF Sendable
    <3>. QED  BY <3>2, <3>3 DEF Follows
  <2>. QED  BY <2>1, <2>2, <2>3
<1>12. Carried'
  <2>. SUFFICES ASSUME NEW j \in 1 .. L + Len(lines)
                PROVE  LET o == origin'[j + 1]
                           line == TextOf'[o[1]][o[2]]
                       IN  \/ wire'[j] = line
                           \/ /\ lib' = Http /\ conn' = "eof"
                              /\ j = Len(wire') /\ o[1] = Len(sent')
                              /\ wire'[j] \in {Line("none", Part),
                                               Line(line.key, Part)}
    BY <1>8 DEF Carried
  <2>1. CASE j \in 1 .. L
    <3>1. wire[j] = TextOf[origin[j + 1][1]][origin[j + 1][2]]
      BY <2>1, <1>8 DEF WireInv, Carried
    <3>0. j + 1 \in 1 .. L + 1 /\ j + 1 # 1
      BY <2>1, <1>1
    <3>2. origin[j + 1][1] \in 0 .. N /\ origin[j + 1][1] # 0
      BY <3>0, <2>1, <1>1, <1>8 DEF WireInv, Placed
    <3>3. origin'[j + 1] = origin[j + 1] /\ wire'[j] = wire[j]
      BY <2>1, <3>0, <1>6, <1>7
    <3>. QED  BY <3>1, <3>2, <3>3, <1>9
  <2>2. CASE j \notin 1 .. L
    <3>1. PICK p \in 1 .. Len(lines) : j = L + p
      <4>1. j - L \in 1 .. Len(lines) /\ j = L + (j - L)
        BY <2>2, <1>1
      <4>. QED  BY <4>1
    <3>2. j + 1 = L + 1 + p
      BY <3>1, <1>1
    <3>3. origin'[j + 1] = <<N + 1, p>> /\ wire'[j] = lines[p]
      BY <3>1, <3>2, <1>6, <1>7
    <3>4. \/ lines[p] = text[p]
          \/ /\ lib = Http /\ conn' = "eof" /\ p = Len(lines)
             /\ lines[p] \in {Line("none", Part), Line(text[p].key, Part)}
      BY <1>4, <1>8 DEF Sendable
    <3>5. CASE lines[p] = text[p]
      BY <3>3, <3>5, <1>3
    <3>6. CASE /\ lib = Http /\ conn' = "eof" /\ p = Len(lines)
               /\ lines[p] \in {Line("none", Part), Line(text[p].key, Part)}
      <4>1. j = Len(wire') /\ Len(sent') = N + 1
        BY <3>1, <3>6, <1>1, <1>6
      <4>. QED  BY <3>3, <3>6, <4>1, <1>3
    <3>. QED  BY <3>4, <3>5, <3>6
  <2>. QED  BY <2>1, <2>2
<1>13. conn' = "up" =>
         origin'[Len(origin')] = <<Len(sent'), Size'[Len(sent')]>>
  <2>. SUFFICES ASSUME conn' = "up" PROVE origin'[Len(origin')] = <<N + 1, Size'[N + 1]>>
    BY <1>1
  <2>1. Len(lines) = Size'[N + 1] /\ Len(lines) \in 1 .. Len(lines)
    BY <1>1, <1>30, <1>4 DEF Sendable
  <2>. QED  BY <2>1, <1>7
<1>14. Len(origin') = Len(wire') + 1 /\ origin'[1] = origin[1]
  BY <1>1, <1>6, <1>7
<1>15. WireInv'
  BY <1>10, <1>11, <1>12, <1>13, <1>14 DEF WireInv
<1>. QED  BY <1>1, <1>6, <1>7, <1>14, <1>15

(* What callers were given and will be given, in terms of what was sent.   *)
Rest == SentInv /\ WireInv /\ ReadInv /\ Len(given) <= Len(sent) /\ InOrder

LEMMA ServerStep ==
  ASSUME TypeOK, Rest, ServerSends \/ ServerCuts
  PROVE  TypeOK' /\ Rest'
<1>1. /\ conn = "up" /\ conn' \in {"up", "eof"}
      /\ UNCHANGED <<lib, at, resp, chan, err, next, took, given>>
  BY DEF ServerSends, ServerCuts
<1>. DEFINE text(m) == IF lib = Http THEN generateMessage(m) ELSE <<m>>
<1>2. \E e \in Events : \E lines :
        sent' = Append(sent, Message(e)) /\ Sendable(lines, text(Message(e)))
          /\ Transmit(lines)
  <2>1. CASE ServerSends
    <3>1. PICK e \in Events : sent' = Append(sent, Message(e))
                             /\ Transmit(text(Message(e)))
      BY <2>1 DEF ServerSends
    <3>2. text(Message(e)) \in Seq(Lines \union Responses)
      <4>1. Message(e) \in Responses
        BY MessageMade
      <4>2. generateMessage(Message(e)) \in Seq(Lines \union Responses)
        BY <4>1, TextLines, SeqMonotonic
      <4>3. <<Message(e)>> \in Seq(Lines \union Responses)
        BY <4>1
      <4>. QED  BY <4>2, <4>3
    <3>. HIDE DEF text
    <3>3. Sendable(text(Message(e)), text(Message(e)))
      BY <3>2 DEF Sendable
    <3>. QED  BY <3>1, <3>3
  <2>2. CASE ServerCuts
    <3>0. lib = Http /\ conn' = "eof"
      BY <2>2 DEF ServerCuts
    <3>1. PICK e \in Events :
            /\ sent' = Append(sent, Message(e))
            /\ \E c \in Cut(generateMessage(Message(e))) : Transmit(c)
      BY <2>2 DEF ServerCuts
    <3>2. PICK c \in Cut(generateMessage(Message(e))) : Transmit(c)
      BY <3>1
    <3>3. generateMessage(Message(e)) \in Seq(Lines)
      BY MessageMade, TextLines
    <3>4. /\ c \in Seq(Lines) /\ Len(c) <= Len(generateMessage(Message(e)))
          /\ \A p \in DOMAIN c :
               LET line == generateMessage(Message(e))[p]
               IN  \/ c[p] = line
                   \/ /\ p = Len(c)
                      /\ c[p] \in {Line("none", Part), Line(line.key, Part)}
      BY <3>3, CutLines
    <3>5. c \in Seq(Lines \union Responses)
      BY <3>4, SeqMonotonic
    <3>6. Sendable(c, generateMessage(Message(e)))
      BY <3>0, <3>4, <3>5 DEF Sendable
    <3>. QED  BY <3>0, <3>1, <3>2, <3>6
  <2>. QED  BY <2>1, <2>2
<1>3. PICK e \in Events : \E lines :
        sent' = Append(sent, Message(e)) /\ Sendable(lines, text(Message(e)))
          /\ Transmit(lines)
  BY <1>2
<1>4. PICK m \in Responses :
        /\ m.Event = "heartbeat" <=> m.Data = Nil
        /\ sent' = Append(sent, m)
        /\ \E lines : Sendable(lines, text(m)) /\ Transmit(lines)
  BY <1>3, MessageMade
<1>5. PICK lines : Sendable(lines, text(m)) /\ Transmit(lines)
  BY <1>4
<1>6. /\ wire' \in Seq(Lines \union Responses)
      /\ origin' \in Seq(Nat \X Nat)
      /\ WireInv' /\ origin'[1] = origin[1]
      /\ sent' \in Seq(Responses) /\ Len(sent') = Len(sent) + 1
  BY <1>1, <1>4, <1>5, Transmitted DEF Rest
<1>. HIDE DEF text
<1>7. TypeOK'
  BY <1>1, <1>6 DEF TypeOK
<1>8. SentInv'
  <2>. SUFFICES ASSUME NEW n \in 1 .. Len(sent) + 1
                PROVE  sent'[n].Event = "heartbeat" <=> sent'[n].Data = Nil
    BY <1>6 DEF SentInv
  <2>1. CASE n = Len(sent) + 1
    BY <2>1, <1>4 DEF TypeOK
  <2>2. CASE n \in DOMAIN sent
    BY <2>2, <1>4 DEF SentInv, Rest, TypeOK
  <2>. QED  BY <2>1, <2>2 DEF TypeOK
<1>9. /\ Len(sent) \in Nat /\ Len(given) \in Nat /\ Len(given) <= Len(sent)
      /\ DOMAIN sent = 1 .. Len(sent) /\ DOMAIN given = 1 .. Len(given)
  BY DEF TypeOK, Rest
<1>10. \A n \in 0 .. Len(sent) :
         Full'[n] = Full[n] /\ (n # 0 => sent'[n] = sent[n])
  BY <1>1, <1>4, TextKept
<1>11. InOrder'
  <2>1. \A i \in DOMAIN given : given[i] = sent[i] /\ i \in 0 .. Len(sent) /\ i # 0
    BY <1>1, <1>9 DEF Rest, InOrder
  <2>. QED  BY <1>1, <1>10, <2>1 DEF InOrder
<1>12. ReadInv'
  <2>. DEFINE n == origin[1][1]
              p == origin[1][2]
  <2>1. n \in 0 .. Len(sent)
    <3>1. 1 \in DOMAIN origin
      BY DEF Rest, WireInv, TypeOK
    <3>. QED  BY <3>1 DEF Rest, WireInv, Placed
  <2>2. Full'[n] = Full[n] /\ (n # 0 => sent'[n] = sent[n])
    BY <1>10, <2>1
  <2>. HIDE DEF n, p
  <2>3. /\ at = "read" =>
             /\ n = Len(given) + (IF p < Full[n] THEN 1 ELSE 0)
             /\ lib = Http =>
                  resp = IF p < Full[n]
                         THEN [Id |-> sent[n].Id,
                               Event |-> IF p = 1 THEN "none" ELSE sent[n].Event,
                               Data |-> Nil]
                         ELSE Fresh
        /\ at = "send" => n = Len(given) + 1 /\ p = Full[n] /\ resp = sent[n]
    BY <1>1 DEF Rest, ReadInv, n, p
  <2>4. (at = "read" /\ p < Full[n]) \/ at = "send" => n # 0
    BY <1>9, <2>3
  <2>5. origin'[1][1] = n /\ origin'[1][2] = p
    BY <1>6 DEF n, p
  <2>. QED  BY <1>1, <2>2, <2>3, <2>4, <2>5 DEF ReadInv
<1>. QED  BY <1>1, <1>6, <1>7, <1>8, <1>9, <1>11, <1>12 DEF Rest

LEMMA ConnectionStep ==
  ASSUME TypeOK, Rest, ServerEnds \/ Breaks
  PROVE  TypeOK' /\ Rest'
<1>1. /\ conn = "up" /\ conn' \in {"eof", "error"}
      /\ UNCHANGED <<lib, sent, at, resp, chan, err, next, took, given>>
  BY DEF ServerEnds, Breaks, streamVars
<1>2. TextOf' = TextOf /\ Size' = Size /\ Full' = Full
  BY <1>1 DEF TextOf, Size, Full
<1>3. PICK i \in 0 .. Len(wire) :
        wire' = SubSeq(wire, 1, i) /\ origin' = SubSeq(origin, 1, i + 1)
  <2>1. CASE ServerEnds
    <3>1. wire' = wire /\ origin' = origin
      BY <2>1 DEF ServerEnds, streamVars
    <3>2. SubSeq(wire, 1, Len(wire)) = wire
      BY SubSeqFull DEF TypeOK
    <3>3. SubSeq(origin, 1, Len(wire) + 1) = origin
      BY SubSeqFull DEF TypeOK, Rest, WireInv
    <3>4. Len(wire) \in 0 .. Len(wire)
      BY DEF TypeOK
    <3>. QED  BY <3>1, <3>2, <3>3, <3>4
  <2>2. CASE Breaks
    BY <2>2 DEF Breaks
  <2>. QED  BY <2>1, <2>2
<1>4. /\ i \in Nat /\ Len(wire) \in Nat /\ Len(origin) = Len(wire) + 1
      /\ DOMAIN wire = 1 .. Len(wire) /\ DOMAIN origin = 1 .. Len(wire) + 1
  BY DEF TypeOK, Rest, WireInv
<1>5. /\ wire' \in Seq(Lines \union Responses) /\ DOMAIN wire' = 1 .. i
      /\ Len(wire') = i /\ \A j \in 1 .. i : wire'[j] = wire[j]
  BY <1>3, <1>4, SubSeqProperties DEF TypeOK
<1>6. /\ origin' \in Seq(Nat \X Nat) /\ DOMAIN origin' = 1 .. i + 1
      /\ Len(origin') = i + 1 /\ \A j \in 1 .. i + 1 : origin'[j] = origin[j]
  <2>. DEFINE Pairs == Nat \X Nat
  <2>1. origin \in Seq(Pairs)
    BY DEF TypeOK
  <2>. HIDE DEF Pairs
  <2>2. SubSeq(origin, 1, i + 1) \in Seq(Pairs)
    BY <2>1, <1>4, SubSeqProperties
  <2>3. /\ Len(SubSeq(origin, 1, i + 1)) = i + 1
        /\ \A j \in 1 .. i + 1 : SubSeq(origin, 1, i + 1)[j] = origin[j]
    BY <2>1, <1>4, SubSeqProperties
  <2>4. origin' \in Seq(Pairs) /\ Len(origin') = i + 1
    BY <1>3, <2>2, <2>3
  <2>. QED  BY <1>3, <2>3, <2>4 DEF Pairs
<1>7. /\ \A j \in 1 .. i : j \in DOMAIN wire /\ j + 1 \in 1 .. i + 1
                           /\ j \in 1 .. i + 1
      /\ \A j \in 1 .. i + 1 : j \in DOMAIN origin
      /\ 1 \in 1 .. i + 1
  BY <1>4
<1>8. Placed'
  BY <1>1, <1>2, <1>6, <1>7 DEF Placed, Rest, WireInv
<1>9. Chained'
  BY <1>2, <1>5, <1>6, <1>7 DEF Chained, Follows, Rest, WireInv
<1>10. Carried'
  <2>. SUFFICES ASSUME NEW j \in 1 .. i
                PROVE  wire'[j] = TextOf'[origin'[j + 1][1]][origin'[j + 1][2]]
    BY <1>5 DEF Carried
  <2>1. wire[j] = TextOf[origin[j + 1][1]][origin[j + 1][2]]
    BY <1>1, <1>7 DEF Carried, Rest, WireInv
  <2>. QED  BY <2>1, <1>2, <1>5, <1>6, <1>7
<1>11. WireInv'
  BY <1>1, <1>5, <1>6, <1>8, <1>9, <1>10 DEF WireInv
<1>12. ReadInv'
  <2>1. origin'[1] = origin[1]
    BY <1>6, <1>7
  <2>2. /\ Full' = Full /\ sent' = sent /\ at' = at /\ resp' = resp
        /\ given' = given /\ lib' = lib
    BY <1>1, <1>2
  <2>. QED  BY <2>1, <2>2, <1>1 DEF ReadInv, Rest
<1>13. InOrder' /\ SentInv' /\ Len(given') <= Len(sent')
  BY <1>1 DEF InOrder, SentInv, Rest
<1>14. TypeOK'
  BY <1>1, <1>5, <1>6 DEF TypeOK
<1>. QED  BY <1>11, <1>12, <1>13, <1>14 DEF Rest

-----------------------------------------------------------------------------
(* The client reads.                                                       *)

LEMMA Advanced ==
  ASSUME TypeOK, Rest, wire # <<>>, UNCHANGED <<lib, sent, conn>>,
         wire' = Tail(wire), origin' = Tail(origin)
  PROVE  /\ wire' \in Seq(Lines \union Responses)
         /\ origin' \in Seq(Nat \X Nat)
         /\ WireInv' /\ origin'[1] = origin[2]
         /\ TextOf' = TextOf /\ Size' = Size /\ Full' = Full
         /\ 1 \in DOMAIN wire /\ 1 \in DOMAIN origin /\ 2 \in DOMAIN origin
         /\ Len(wire) = 1 => wire' = <<>>
         /\ Head(wire) = wire[1] /\ wire[1] \in Lines \union Responses
<1>1. TextOf' = TextOf /\ Size' = Size /\ Full' = Full
  BY DEF TextOf, Size, Full
<1>2. PICK L \in Nat : L + 1 = Len(wire)
  <2>1. Len(wire) \in Nat /\ Len(wire) >= 1
    BY DEF TypeOK
  <2>2. Len(wire) - 1 \in Nat /\ (Len(wire) - 1) + 1 = Len(wire)
    BY <2>1
  <2>. QED  BY <2>2
<1>3. /\ L \in Nat /\ Len(wire) = L + 1 /\ Len(origin) = L + 2
      /\ DOMAIN wire = 1 .. L + 1 /\ DOMAIN origin = 1 .. L + 2
  <2>1. wire \in Seq(Lines \union Responses) /\ origin \in Seq(Nat \X Nat)
    BY DEF TypeOK
  <2>2. Len(origin) = Len(wire) + 1
    BY DEF Rest, WireInv
  <2>3. L \in Nat /\ Len(wire) = L + 1 /\ Len(origin) = L + 2
    BY ONLY <1>2, <2>2
  <2>4. DOMAIN wire = 1 .. Len(wire) /\ DOMAIN origin = 1 .. Len(origin)
    BY ONLY <2>1
  <2>. QED  BY ONLY <2>3, <2>4
<1>4. /\ wire' \in Seq(Lines \union Responses) /\ DOMAIN wire' = 1 .. L
      /\ Len(wire') = L /\ \A j \in 1 .. L : wire'[j] = wire[j + 1]
  BY <1>3, HeadTailProperties DEF TypeOK
<1>5. /\ origin' \in Seq(Nat \X Nat) /\ DOMAIN origin' = 1 .. L + 1
      /\ Len(origin') = L + 1 /\ \A j \in 1 .. L + 1 : origin'[j] = origin[j + 1]
  <2>. DEFINE Pairs == Nat \X Nat
  <2>1. origin \in Seq(Pairs) /\ origin # <<>>
    BY <1>3 DEF TypeOK
  <2>. HIDE DEF Pairs
  <2>2. /\ Tail(origin) \in Seq(Pairs) /\ Len(Tail(origin)) = L + 1
        /\ \A j \in 1 .. L + 1 : Tail(origin)[j] = origin[j + 1]
    BY <2>1, <1>3, HeadTailProperties
  <2>3. origin' \in Seq(Pairs) /\ Len(origin') = L + 1
    BY <2>2
  <2>. QED  BY <2>2, <2>3 DEF Pairs
<1>6. /\ \A j \in 1 .. L : /\ j + 1 \in 1 .. L + 1 /\ j \in 1 .. L + 1
                           /\ j + 1 + 1 \in 1 .. L + 2
      /\ \A j \in 1 .. L + 1 : j + 1 \in 1 .. L + 2 /\ j + 1 # 1
      /\ 1 \in 1 .. L + 1 /\ 1 \in 1 .. L + 2 /\ 2 \in 1 .. L + 2 /\ 1 + 1 = 2
  BY <1>3
<1>7. Placed'
  <2>. SUFFICES ASSUME NEW j \in 1 .. L + 1
                PROVE  LET o == origin'[j]
                       IN  /\ o[1] \in 0 .. Len(sent')
                           /\ IF o[1] = 0 THEN j = 1 /\ o[2] = 0
                                          ELSE o[2] \in 1 .. Size'[o[1]]
    BY <1>5 DEF Placed
  <2>1. /\ origin[j + 1][1] \in 0 .. Len(sent) /\ origin[j + 1][1] # 0
        /\ origin[j + 1][2] \in 1 .. Size[origin[j + 1][1]]
    BY <1>3, <1>6 DEF Placed, Rest, WireInv
  <2>. QED  BY <2>1, <1>1, <1>5
<1>8. Chained'
  <2>. SUFFICES ASSUME NEW j \in 1 .. L
                PROVE  Follows(origin[j + 1], origin[j])'
    BY <1>4 DEF Chained
  <2>1. Follows(origin[j + 1 + 1], origin[j + 1])
    BY <1>3, <1>6 DEF Chained, Rest, WireInv
  <2>. QED  BY <2>1, <1>1, <1>5, <1>6 DEF Follows
<1>9. Carried'
  <2>. SUFFICES ASSUME NEW j \in 1 .. L
                PROVE  LET o == origin'[j + 1]
                           line == TextOf'[o[1]][o[2]]
                       IN  \/ wire'[j] = line
                           \/ /\ lib' = Http /\ conn' = "eof"
                              /\ j = Len(wire') /\ o[1] = Len(sent')
                              /\ wire'[j] \in {Line("none", Part),
                                               Line(line.key, Part)}
    BY <1>4 DEF Carried
  <2>1. LET o == origin[j + 1 + 1]
            line == TextOf[o[1]][o[2]]
        IN  \/ wire[j + 1] = line
            \/ /\ lib = Http /\ conn = "eof"
               /\ j + 1 = Len(wire) /\ o[1] = Len(sent)
               /\ wire[j + 1] \in {Line("none", Part), Line(line.key, Part)}
    BY <1>3, <1>6 DEF Carried, Rest, WireInv
  <2>2. /\ origin'[j + 1] = origin[j + 1 + 1] /\ wire'[j] = wire[j + 1]
        /\ j + 1 = Len(wire) => j = Len(wire')
    <3>1. origin'[j + 1] = origin[j + 1 + 1]
      BY <1>5, <1>6
    <3>2. wire'[j] = wire[j + 1]
      BY <1>4
    <3>3. j + 1 = Len(wire) => j = Len(wire')
      BY <1>3, <1>4
    <3>. QED  BY <3>1, <3>2, <3>3
  <2>. QED  BY <2>1, <2>2, <1>1
<1>10. conn' = "up" => origin'[Len(origin')] = <<Len(sent'), Size'[Len(sent')]>>
  <2>1. L + 1 \in 1 .. L + 1 /\ L + 1 + 1 = L + 2
    BY <1>3
  <2>2. origin'[L + 1] = origin[L + 2]
    BY <2>1, <1>5
  <2>. QED  BY <2>2, <1>1, <1>3, <1>5 DEF Rest, WireInv
<1>11. WireInv'
  BY <1>4, <1>5, <1>7, <1>8, <1>9, <1>10 DEF WireInv
<1>12. Len(wire) = 1 => wire' = <<>>
  BY <1>3, <1>4
<1>13. Head(wire) = wire[1] /\ wire[1] \in Lines \union Responses
  BY <1>3, <1>6 DEF TypeOK
<1>. QED  BY <1>1, <1>3, <1>4, <1>5, <1>6, <1>11, <1>12, <1>13

(* The next line: of a complete text, or cut and then the last of all.     *)
LEMMA NextLine ==
  ASSUME TypeOK, Rest, wire # <<>>, NEW n, NEW p, NEW k, NEW q,
         n = origin[1][1], p = origin[1][2], k = origin[2][1], q = origin[2][2],
         1 \in DOMAIN wire, 1 \in DOMAIN origin, 2 \in DOMAIN origin
  PROVE  /\ n \in Nat /\ p \in Nat /\ k \in 1 .. Len(sent) /\ q \in 1 .. Size[k]
         /\ IF p < Size[n] THEN k = n /\ q = p + 1 ELSE k = n + 1 /\ q = 1
         /\ p = 0 => n = 0
         /\ \/ wire[1] = TextOf[k][q]
            \/ /\ lib = Http /\ conn = "eof" /\ Len(wire) = 1 /\ k = Len(sent)
               /\ wire[1] \in {Line("none", Part), Line(TextOf[k][q].key, Part)}
<1>1. /\ n \in 0 .. Len(sent) /\ k \in 0 .. Len(sent)
      /\ IF n = 0 THEN p = 0 ELSE p \in 1 .. Size[n]
      /\ k # 0 /\ q \in 1 .. Size[k]
  BY DEF Rest, WireInv, Placed
<1>2. Len(sent) \in Nat /\ \A i \in 1 .. Len(sent) : Size[i] \in Nat
  <2>1. ASSUME NEW i \in 1 .. Len(sent) PROVE Size[i] \in Nat
    <3>1. Size[i] = IF lib = Grpc THEN 1 ELSE IF sent[i].Data = Nil THEN 3 ELSE 4
      BY Sized
    <3>. QED  BY <3>1
  <2>. QED  BY <2>1 DEF TypeOK
<1>3. Follows(origin[2], origin[1])
  <2>1. Follows(origin[1 + 1], origin[1])
    BY DEF Rest, WireInv, Chained
  <2>. QED  BY <2>1
<1>4. IF p < Size[n] THEN k = n /\ q = p + 1 ELSE k = n + 1 /\ q = 1
  BY <1>3 DEF Follows
<1>5. LET line == TextOf[origin[1 + 1][1]][origin[1 + 1][2]]
      IN  \/ wire[1] = line
          \/ /\ lib = Http /\ conn = "eof"
             /\ 1 = Len(wire) /\ origin[1 + 1][1] = Len(sent)
             /\ wire[1] \in {Line("none", Part), Line(line.key, Part)}
  BY DEF Rest, WireInv, Carried
<1>6. \/ wire[1] = TextOf[k][q]
      \/ /\ lib = Http /\ conn = "eof" /\ Len(wire) = 1 /\ k = Len(sent)
         /\ wire[1] \in {Line("none", Part), Line(TextOf[k][q].key, Part)}
  BY <1>5
<1>. QED  BY <1>1, <1>2, <1>4, <1>6

LEMMA ClientsDiffer == Http # Grpc
<1>1. "client" \in Http /\ "client" \notin Grpc
  BY DEF Http, Grpc
<1>. QED  BY <1>1

LEMMA ReadLineStep ==
  ASSUME TypeOK, Rest, lib = Http, ReadLine
  PROVE  TypeOK' /\ Rest'
<1>1. /\ at = "read" /\ wire # <<>> /\ at' \in {"read", "send"}
      /\ resp' = Parse(Head(wire))
      /\ at' = IF Finishes(Head(wire)) THEN "send" ELSE "read"
      /\ wire' = Tail(wire) /\ origin' = Tail(origin)
      /\ UNCHANGED <<lib, sent, conn, chan, err, next, took, given>>
  BY DEF ReadLine
<1>2. /\ wire' \in Seq(Lines \union Responses)
      /\ origin' \in Seq(Nat \X Nat)
      /\ WireInv' /\ origin'[1] = origin[2]
      /\ TextOf' = TextOf /\ Size' = Size /\ Full' = Full
      /\ 1 \in DOMAIN wire /\ 1 \in DOMAIN origin /\ 2 \in DOMAIN origin
      /\ Len(wire) = 1 => wire' = <<>>
      /\ Head(wire) = wire[1] /\ wire[1] \in Lines \union Responses
  BY <1>1, Advanced
<1>3. PICK n, p, k, q : /\ n = origin[1][1] /\ p = origin[1][2]
                        /\ k = origin[2][1] /\ q = origin[2][2]
  OBVIOUS
<1>4. /\ n \in Nat /\ p \in Nat /\ k \in 1 .. Len(sent) /\ q \in 1 .. Size[k]
      /\ IF p < Size[n] THEN k = n /\ q = p + 1 ELSE k = n + 1 /\ q = 1
      /\ p = 0 => n = 0
      /\ \/ wire[1] = TextOf[k][q]
         \/ /\ lib = Http /\ conn = "eof" /\ Len(wire) = 1 /\ k = Len(sent)
            /\ wire[1] \in {Line("none", Part), Line(TextOf[k][q].key, Part)}
  BY <1>1, <1>2, <1>3, NextLine, ZenonT(40)
<1>5. PICK m \in Responses : m = sent[k] /\ (m.Event = "heartbeat" <=> m.Data = Nil)
  BY <1>4 DEF TypeOK, SentInv, Rest
<1>6. /\ TextOf[k] = generateMessage(m)
      /\ Size[k] = IF m.Data = Nil THEN 3 ELSE 4
      /\ Full[k] = IF m.Data = Nil THEN 2 ELSE 3
  <2>1. k \in DOMAIN sent /\ k \in 0 .. Len(sent) /\ k # 0
    BY <1>4 DEF TypeOK
  <2>. QED  BY <2>1, <1>4, <1>5, ClientsDiffer, Sized DEF TextOf, Full
(* Where a message begins, all before it was given.                        *)
<1>7. /\ q = 1 => k = Len(given) + 1 /\ resp = Fresh
      /\ q > 1 => /\ k = n /\ p = q - 1
                 /\ k = Len(given) + (IF p < Full[k] THEN 1 ELSE 0)
                 /\ resp = IF p < Full[k]
                           THEN [Id |-> m.Id,
                                 Event |-> IF p = 1 THEN "none" ELSE m.Event,
                                 Data |-> Nil]
                           ELSE Fresh
  <2>1. /\ n = Len(given) + (IF p < Full[n] THEN 1 ELSE 0)
        /\ resp = IF p < Full[n]
                  THEN [Id |-> sent[n].Id,
                        Event |-> IF p = 1 THEN "none" ELSE sent[n].Event,
                        Data |-> Nil]
                  ELSE Fresh
    BY <1>1, <1>3 DEF Rest, ReadInv
  <2>2. ASSUME q = 1
        PROVE  k = n + 1 /\ ~(p < Full[n])
    <3>1. CASE n = 0
      <4>1. p = 0 /\ Full[n] = 0
        BY <1>2, <1>3, <3>1 DEF Rest, WireInv, Placed, Full, TypeOK
      <4>. QED  BY <4>1, <1>4, <3>1, <2>2
    <3>2. CASE n # 0
      <4>1. n \in 1 .. Len(sent) /\ p # 0
        BY <1>2, <1>3, <1>4, <3>2, SMTT(20) DEF Rest, WireInv, Placed
      <4>2. Full[n] \in 1 .. Size[n] /\ Size[n] \in Nat
        BY <4>1, Sized
      <4>. QED  BY <4>1, <4>2, <1>4, <2>2
    <3>. QED  BY <3>1, <3>2
  <2>3. ASSUME q > 1
        PROVE  k = n /\ p = q - 1
    BY <1>4, <2>3
  <2>. QED  BY <2>1, <2>2, <2>3, <1>5 DEF TypeOK
<1>8. Parse(wire[1]) = IF wire[1].key = "id" THEN [resp EXCEPT !.Id = wire[1].val]
                       ELSE IF wire[1].key = "event"
                            THEN [resp EXCEPT !.Event = wire[1].val]
                       ELSE IF wire[1].key = "data"
                            THEN [resp EXCEPT !.Data = wire[1].val]
                       ELSE resp
  BY DEF Parse
<1>9. /\ TextOf[k][1] = Line("id", m.Id) /\ TextOf[k][2] = Line("event", m.Event)
      /\ m.Data # Nil => TextOf[k][3] = Line("data", m.Data) /\ TextOf[k][4] = Blank
      /\ m.Data = Nil => TextOf[k][3] = Blank
  BY <1>6 DEF generateMessage
<1>10. /\ q \in {1, 2, 3, 4} /\ (m.Data = Nil => q # 4)
       /\ TextOf[k][q].key \in {"none", "id", "event", "data"}
       /\ TextOf[k][q].key = "data" => q = 3 /\ m.Data # Nil
  <2>1. q \in {1, 2, 3, 4} /\ (m.Data = Nil => q # 4)
    BY <1>4, <1>6
  <2>. QED  BY <2>1, <1>9 DEF Line, Blank
<1>11. wire[1] \in Lines
  <2>1. TextOf[k][q] \in Lines
    <3>1. TextOf[k] \in Seq(Lines) /\ Len(TextOf[k]) = IF m.Data = Nil THEN 3 ELSE 4
      BY <1>6, TextLines
    <3>2. q \in 1 .. Len(TextOf[k])
      BY <3>1, <1>10
    <3>. QED  BY <3>1, <3>2
  <2>2. Line("none", Part) \in Lines /\ Line(TextOf[k][q].key, Part) \in Lines
    BY <1>10 DEF Line, Lines, Ids, Kinds, Texts
  <2>. QED  BY <2>1, <2>2, <1>4
<1>12. resp' \in Responses
  <2>1. /\ wire[1].key = "id" => wire[1].val \in Ids
        /\ wire[1].key = "event" => wire[1].val \in Kinds
        /\ wire[1].key = "data" => wire[1].val \in Texts
    BY <1>11 DEF Lines
  <2>2. resp \in [Id : Ids, Event : Kinds, Data : Texts]
    BY DEF TypeOK, Responses
  <2>4. resp' = Parse(wire[1])
    BY <1>1, <1>2
  <2>5. CASE wire[1].key = "id"
    BY <2>1, <2>2, <2>4, <2>5, <1>8 DEF Responses
  <2>6. CASE wire[1].key = "event"
    BY <2>1, <2>2, <2>4, <2>6, <1>8 DEF Responses
  <2>7. CASE wire[1].key = "data"
    BY <2>1, <2>2, <2>4, <2>7, <1>8 DEF Responses
  <2>8. CASE wire[1].key \notin {"id", "event", "data"}
    BY <2>2, <2>4, <2>8, <1>8 DEF Responses
  <2>. QED  BY <2>5, <2>6, <2>7, <2>8
<1>13. TypeOK'
  BY <1>1, <1>2, <1>12 DEF TypeOK
<1>14. InOrder' /\ SentInv' /\ Len(given') <= Len(sent')
  BY <1>1 DEF InOrder, SentInv, Rest
<1>15. Len(given) \in Nat
  BY DEF TypeOK
(* What the response is now, and whether it is complete.                   *)
<1>16. CASE wire[1] = TextOf[k][q]
  <2>1. CASE q = 1
    <3>0. wire[1] = Line("id", m.Id) /\ resp = Fresh
      BY <2>1, <1>7, <1>9, <1>16
    <3>1. at' = "read" /\ resp' = [Fresh EXCEPT !.Id = m.Id]
      BY <3>0, <1>1, <1>2, <1>8 DEF Line, Finishes
    <3>2. q < Full[k] /\ k = Len(given) + 1
      BY <2>1, <1>6, <1>7
    <3>3. resp' = [Id |-> m.Id, Event |-> "none", Data |-> Nil]
      BY <3>1 DEF Fresh
    <3>4. ReadInv'
      BY <2>1, <3>1, <3>2, <3>3, <1>1, <1>2, <1>3, <1>5 DEF ReadInv
    <3>. QED  BY <3>4, <1>2, <1>13, <1>14 DEF Rest
  <2>2. CASE q = 2
    <3>1. /\ k = Len(given) + 1
          /\ resp = [Id |-> m.Id, Event |-> "none", Data |-> Nil]
      BY <2>2, <1>6, <1>7
    <3>2. wire[1] = Line("event", m.Event)
      BY <2>2, <1>9, <1>16
    <3>3. resp' = [Id |-> m.Id, Event |-> m.Event, Data |-> Nil]
      BY <3>1, <3>2, <1>1, <1>2, <1>8 DEF Line
    <3>4. at' = IF m.Event = "heartbeat" THEN "send" ELSE "read"
      BY <3>2, <1>1, <1>2 DEF Line, Finishes
    <3>5. CASE m.Data = Nil
      <4>1. resp' = m /\ at' = "send" /\ q = Full[k]
        BY <2>2, <3>3, <3>4, <3>5, <1>5, <1>6 DEF Responses
      <4>2. ReadInv'
        BY <4>1, <3>1, <1>1, <1>2, <1>3, <1>5 DEF ReadInv
      <4>. QED  BY <4>2, <1>2, <1>13, <1>14 DEF Rest
    <3>6. CASE m.Data # Nil
      <4>1. at' = "read" /\ q < Full[k] /\ q # 1
        BY <2>2, <3>4, <3>6, <1>5, <1>6
      <4>2. ReadInv'
        BY <4>1, <3>1, <3>3, <1>1, <1>2, <1>3, <1>5 DEF ReadInv
      <4>. QED  BY <4>2, <1>2, <1>13, <1>14 DEF Rest
    <3>. QED  BY <3>5, <3>6
  <2>3. CASE q = 3 /\ m.Data # Nil
    <3>1. /\ k = Len(given) + 1
          /\ resp = [Id |-> m.Id, Event |-> m.Event, Data |-> Nil]
      BY <2>3, <1>6, <1>7
    <3>2. wire[1] = Line("data", m.Data)
      BY <2>3, <1>9, <1>16
    <3>3. resp' = m /\ at' = "send" /\ q = Full[k]
      BY <2>3, <3>1, <3>2, <1>1, <1>2, <1>6, <1>8, SMTT(20) DEF Line, Finishes, Responses
    <3>4. ReadInv'
      BY <3>1, <3>3, <1>1, <1>2, <1>3, <1>5 DEF ReadInv
    <3>. QED  BY <3>4, <1>2, <1>13, <1>14 DEF Rest
  <2>4. CASE q = 4 \/ (q = 3 /\ m.Data = Nil)
    <3>1. k = Len(given) /\ resp = Fresh /\ ~(q < Full[k])
      BY <2>4, <1>6, <1>7, <1>10, <1>15
    <3>2. wire[1] = Blank
      BY <2>4, <1>9, <1>10, <1>16
    <3>3. resp' = Fresh /\ at' = "read"
      BY <3>1, <3>2, <1>1, <1>2, <1>8 DEF Blank, Finishes
    <3>4. ReadInv'
      BY <3>1, <3>3, <1>1, <1>2, <1>3, <1>15 DEF ReadInv
    <3>. QED  BY <3>4, <1>2, <1>13, <1>14 DEF Rest
  <2>. QED  BY <2>1, <2>2, <2>3, <2>4, <1>10
(* A cut line is the last; it is only given when it was to be the data.    *)
<1>17. CASE /\ conn = "eof" /\ Len(wire) = 1 /\ k = Len(sent)
            /\ wire[1] \in {Line("none", Part), Line(TextOf[k][q].key, Part)}
  <2>1. wire' = <<>> /\ conn' # "up"
    BY <1>1, <1>2, <1>17
  <2>2. CASE at' = "read"
    <3>1. ReadInv'
      BY <2>1, <2>2 DEF ReadInv
    <3>. QED  BY <3>1, <1>2, <1>13, <1>14 DEF Rest
  <2>3. CASE at' = "send"
    <3>1. Finishes(wire[1])
      BY <2>3, <1>1, <1>2
    <3>2. wire[1] = Line("data", Part) /\ TextOf[k][q].key = "data"
      BY <3>1, <1>17, ClientsAssumption DEF Finishes, Line
    <3>3. q = 3 /\ m.Data # Nil
      BY <3>2, <1>10
    <3>4. /\ k = Len(given) + 1
          /\ resp = [Id |-> m.Id, Event |-> m.Event, Data |-> Nil]
      BY <3>3, <1>6, <1>7
    <3>5. CutShort(resp', m) /\ q = Full[k]
      BY <3>2, <3>3, <3>4, <1>1, <1>2, <1>6, <1>8 DEF Line, CutShort, Responses
    <3>6. ReadInv'
      BY <2>3, <3>4, <3>5, <1>1, <1>2, <1>3, <1>5, <1>17 DEF ReadInv, CutShort
    <3>. QED  BY <3>6, <1>2, <1>13, <1>14 DEF Rest
  <2>. QED  BY <2>2, <2>3, <1>1
<1>. QED  BY <1>4, <1>16, <1>17

LEMMA RecvStep ==
  ASSUME TypeOK, Rest, lib = Grpc, Recv
  PROVE  TypeOK' /\ Rest'
<1>1. /\ at = "read" /\ wire # <<>> /\ at' = "send" /\ resp' = Head(wire)
      /\ wire' = Tail(wire) /\ origin' = Tail(origin)
      /\ UNCHANGED <<lib, sent, conn, chan, err, next, took, given>>
  BY DEF Recv
<1>2. /\ wire' \in Seq(Lines \union Responses)
      /\ origin' \in Seq(Nat \X Nat)
      /\ WireInv' /\ origin'[1] = origin[2]
      /\ TextOf' = TextOf /\ Size' = Size /\ Full' = Full
      /\ 1 \in DOMAIN wire /\ 1 \in DOMAIN origin /\ 2 \in DOMAIN origin
      /\ Len(wire) = 1 => wire' = <<>>
      /\ Head(wire) = wire[1] /\ wire[1] \in Lines \union Responses
  BY <1>1, Advanced
<1>3. PICK n, p, k, q : /\ n = origin[1][1] /\ p = origin[1][2]
                        /\ k = origin[2][1] /\ q = origin[2][2]
  OBVIOUS
<1>4. /\ n \in Nat /\ p \in Nat /\ k \in 1 .. Len(sent) /\ q \in 1 .. Size[k]
      /\ IF p < Size[n] THEN k = n /\ q = p + 1 ELSE k = n + 1 /\ q = 1
      /\ p = 0 => n = 0
      /\ \/ wire[1] = TextOf[k][q]
         \/ /\ lib = Http /\ conn = "eof" /\ Len(wire) = 1 /\ k = Len(sent)
            /\ wire[1] \in {Line("none", Part), Line(TextOf[k][q].key, Part)}
  BY <1>1, <1>2, <1>3, NextLine, ZenonT(40)
<1>5. /\ TextOf[k] = <<sent[k]>> /\ Size[k] = 1 /\ Full[k] = 1
      /\ sent[k] \in Responses
  <2>1. k \in DOMAIN sent /\ k \in 0 .. Len(sent) /\ k # 0
    BY <1>4 DEF TypeOK
  <2>2. sent[k] \in Responses
    BY <1>4, Sized
  <2>3. Size[k] = IF lib = Grpc THEN 1 ELSE IF sent[k].Data = Nil THEN 3 ELSE 4
    BY <1>4, Sized
  <2>4. TextOf[k] = <<sent[k]>>
    BY <2>1, ClientsDiffer DEF TextOf
  <2>5. Full[k] = 1
    BY <2>1 DEF Full
  <2>. QED  BY <2>2, <2>3, <2>4, <2>5
<1>6. q = 1 /\ wire[1] = sent[k]
  BY <1>4, <1>5, ClientsDiffer
<1>7. k = Len(given) + 1
  <2>1. n = Len(given) + (IF p < Full[n] THEN 1 ELSE 0)
    BY <1>1, <1>3 DEF Rest, ReadInv
  <2>2. CASE n = 0
    <3>1. Full[n] = 0 /\ Size[n] = 0
      BY <2>2 DEF Full, Size, TypeOK
    <3>. QED  BY <2>1, <2>2, <3>1, <1>4
  <2>3. CASE n # 0
    <3>1. n \in 1 .. Len(sent) /\ p \in 1 .. Size[n]
      <4>1. n \in 0 .. Len(sent) /\ (n # 0 => p \in 1 .. Size[n])
        BY <1>2, <1>3 DEF Rest, WireInv, Placed
      <4>. QED  BY <4>1, <1>4, <2>3
    <3>2. Size[n] = IF lib = Grpc THEN 1 ELSE IF sent[n].Data = Nil THEN 3 ELSE 4
      BY <3>1, Sized
    <3>3. Full[n] = 1 /\ Size[n] = 1
      BY <3>1, <3>2 DEF Full, TypeOK
    <3>. QED  BY <2>1, <3>1, <3>3, <1>4 DEF TypeOK
  <2>. QED  BY <2>2, <2>3
<1>8. ReadInv'
  BY <1>1, <1>2, <1>3, <1>5, <1>6, <1>7 DEF ReadInv
<1>9. TypeOK'
  BY <1>1, <1>2, <1>5, <1>6 DEF TypeOK
<1>10. InOrder' /\ SentInv' /\ Len(given') <= Len(sent')
  BY <1>1 DEF InOrder, SentInv, Rest
<1>. QED  BY <1>2, <1>8, <1>9, <1>10 DEF Rest

-----------------------------------------------------------------------------
(* What was read is handed over, and steps that leave it alone.            *)

LEMMA HandOver ==
  ASSUME TypeOK, Rest, at = "send", given' = Append(given, resp),
         at' = "read", resp' = Fresh \/ (lib = Grpc /\ resp' = resp),
         UNCHANGED <<lib, sent, wire, origin, conn>>
  PROVE  /\ Rest' /\ given' \in Seq(Responses)
<1>1. TextOf' = TextOf /\ Size' = Size /\ Full' = Full
  BY DEF TextOf, Size, Full
<1>2. PICK n, p : n = origin[1][1] /\ p = origin[1][2]
  OBVIOUS
<1>3. /\ n = Len(given) + 1 /\ p = Full[n]
      /\ \/ resp = sent[n]
         \/ CutShort(resp, sent[n]) /\ n = Len(sent) /\ conn = "eof" /\ lib = Http
  BY <1>2 DEF Rest, ReadInv
<1>4. n \in 1 .. Len(sent) /\ Full[n] \in Nat
  <2>1. 1 \in DOMAIN origin
    BY DEF Rest, WireInv, TypeOK
  <2>2. n \in 0 .. Len(sent)
    BY <1>2, <2>1 DEF Rest, WireInv, Placed
  <2>3. n \in 1 .. Len(sent)
    BY <1>3, <2>2 DEF TypeOK
  <2>. QED  BY <2>3 DEF Full, TypeOK
<1>5. /\ given' \in Seq(Responses) /\ Len(given') = n /\ given'[n] = resp
      /\ DOMAIN given' = 1 .. n /\ DOMAIN given = 1 .. n - 1
      /\ \A i \in 1 .. n - 1 : given'[i] = given[i]
  BY <1>3 DEF TypeOK
<1>6. InOrder'
  <2>1. ASSUME NEW i \in 1 .. n - 1
        PROVE  \/ given'[i] = sent[i]
               \/ /\ CutShort(given'[i], sent[i])
                  /\ i = Len(sent) /\ conn = "eof" /\ lib = Http
    BY <1>5 DEF Rest, InOrder
  <2>2. \/ given'[n] = sent[n]
        \/ /\ CutShort(given'[n], sent[n])
           /\ n = Len(sent) /\ conn = "eof" /\ lib = Http
    BY <1>3, <1>5
  <2>3. \A i \in 1 .. n : i \in 1 .. n - 1 \/ i = n
    BY <1>4
  <2>. QED  BY <2>1, <2>2, <2>3, <1>5 DEF InOrder, CutShort
<1>7. ReadInv'
  <2>1. ~(p < Full[n]) /\ n = Len(given') + 0 /\ origin'[1] = origin[1]
    BY <1>3, <1>4, <1>5
  <2>. QED  BY <2>1, <1>1, <1>2, <1>4, <1>5, ClientsDiffer DEF ReadInv
<1>8. WireInv'
  BY <1>1 DEF WireInv, Placed, Chained, Follows, Carried, Rest
<1>9. SentInv' /\ Len(given') <= Len(sent')
  BY <1>4, <1>5 DEF SentInv, Rest, TypeOK
<1>. QED  BY <1>5, <1>6, <1>7, <1>8, <1>9 DEF Rest

LEMMA LeftAlone ==
  ASSUME Rest, UNCHANGED <<lib, sent, wire, origin, conn, given>>,
         (at' = at /\ resp' = resp) \/ at' \notin {"read", "send"}
  PROVE  Rest'
<1>1. TextOf' = TextOf /\ Size' = Size /\ Full' = Full
  BY DEF TextOf, Size, Full
<1>2. WireInv'
  BY <1>1 DEF WireInv, Placed, Chained, Follows, Carried, Rest
<1>3. ReadInv'
  BY <1>1 DEF ReadInv, Rest
<1>4. InOrder' /\ SentInv' /\ Len(given') <= Len(sent')
  BY DEF InOrder, SentInv, Rest
<1>. QED  BY <1>2, <1>3, <1>4 DEF Rest

(* Whatever client it is, its code is one of these.                        *)
LEMMA ClientSteps ==
  ASSUME TypeOK, Client
  PROVE  \/ lib = Http /\ (WatchHttp \/ \E n \in Callers : Take(n))
         \/ lib = Grpc /\ Streams
         \/ Get
<1>1. lib = Http => \A name \in Grpc : name \notin lib
  BY DEF Http, Grpc
<1>2. /\ "Apps" \in Grpc /\ "Backupctl" \in Grpc /\ "Config" \in Grpc
      /\ "Containers" \in Grpc /\ "Coreinfo" \in Grpc /\ "Nodes" \in Grpc
      /\ "Podgroup" \in Grpc /\ "Proxy" \in Grpc /\ "Rebellion" \in Grpc
      /\ "Ports" \in Grpc /\ "Streamprocs" \in Grpc /\ "Webrouter" \in Grpc
      /\ "Depends" \in Grpc
  BY DEF Grpc
<1>3. CASE HttpClient
  BY <1>3 DEF HttpClient
<1>4. CASE ~HttpClient
  <2>1. \/ \E name \in Grpc : name \in lib /\ (Streams \/ Get)
        \/ Get
    BY <1>2, <1>4 DEF Client, AppsClient, BackupctlClient, ConfigClient,
       ContainersClient, CoreinfoClient, NodesClient, PodgroupClient,
       ProxyClient, RebellionLocalprocsClient, StreamrouterPortsClient,
       StreamrouterStreamprocsClient, WebrouterWebprocsClient,
       DependsClient, AppnameClient, LocalspecClient, LainletClient
  <2>. QED  BY <2>1, <1>1 DEF TypeOK
<1>. QED  BY <1>3, <1>4

(* The two parts that are about errors.                                    *)
Errors == ErrorInv /\ NilMeansError

LEMMA ErrorsLeftAlone ==
  ASSUME Errors, UNCHANGED <<lib, chan, err, next, took>>,
         at' = at \/ at' \in {"read", "send"} \/ (lib = Http /\ at' = "done")
  PROVE  Errors'
<1>1. ErrorInv'
  BY ClientsDiffer DEF Errors, ErrorInv
<1>2. NilMeansError'
  BY DEF Errors, NilMeansError
<1>. QED  BY <1>1, <1>2 DEF Errors

LEMMA StepInv ==
  ASSUME IInv, [Next]_vars
  PROVE  IInv'
<1>1. TypeOK /\ Rest /\ Errors
  BY DEF IInv, Rest, Errors
<1>. SUFFICES TypeOK' /\ Rest' /\ Errors'
  BY DEF IInv, Rest, Errors
<1>2. CASE UNCHANGED vars
  <2>1. UNCHANGED <<lib, sent, wire, origin, conn, given, at, resp, chan, err,
                    next, took>>
    BY <1>2 DEF vars, watchVars, streamVars
  <2>2. TypeOK'
    BY <1>1, <2>1 DEF TypeOK
  <2>. QED  BY <1>1, <2>1, <2>2, LeftAlone, ErrorsLeftAlone
<1>3. CASE ServerSends \/ ServerCuts
  <2>1. UNCHANGED <<lib, chan, err, next, took, at>>
    BY <1>3 DEF ServerSends, ServerCuts
  <2>. QED  BY <1>1, <1>3, <2>1, ServerStep, ErrorsLeftAlone
<1>4. CASE ServerEnds \/ Breaks
  <2>1. UNCHANGED <<lib, chan, err, next, took, at>>
    BY <1>4 DEF ServerEnds, Breaks
  <2>. QED  BY <1>1, <1>4, <2>1, ConnectionStep, ErrorsLeftAlone
<1>5. CASE Cancel \/ StopListening \/ Get \/ CloseBody
  <2>1. UNCHANGED <<lib, sent, wire, origin, conn, given, at, resp, chan, err,
                    next, took>>
    BY <1>5 DEF Cancel, StopListening, CloseBody, Get, Do, Answered, Refused,
       TimesOut, ReturnWith, watchVars, streamVars
  <2>2. TypeOK'
    BY <1>1, <2>1 DEF TypeOK
  <2>. QED  BY <1>1, <2>1, <2>2, LeftAlone, ErrorsLeftAlone
<1>6. CASE lib = Http /\ ReadLine
  <2>1. /\ UNCHANGED <<lib, chan, err, next, took>>
        /\ at' \in {"read", "send"}
    BY <1>6 DEF ReadLine
  <2>. QED  BY <1>1, <1>6, <2>1, ReadLineStep, ErrorsLeftAlone
<1>7. CASE lib = Http /\ ReadEnds
  <2>1. /\ UNCHANGED <<lib, sent, wire, origin, conn, given, resp, err, next, took>>
        /\ at' = "done" /\ chan' = "closed"
    BY <1>7 DEF ReadEnds, streamVars
  <2>2. TypeOK'
    BY <1>1, <2>1 DEF TypeOK
  <2>3. Errors'
    <3>1. ErrorInv'
      BY <1>1, <1>7, <2>1, ClientsDiffer DEF Errors, ErrorInv
    <3>2. NilMeansError'
      BY <1>1, <2>1 DEF Errors, NilMeansError
    <3>. QED  BY <3>1, <3>2 DEF Errors
  <2>. QED  BY <1>1, <2>1, <2>2, <2>3, LeftAlone
<1>8. ASSUME NEW n \in Callers, lib = Http, Take(n)
      PROVE  TypeOK' /\ Rest' /\ Errors'
  <2>1. /\ UNCHANGED <<lib, sent, wire, origin, conn, chan, err, next, took>>
        /\ at = "send" /\ at' = "read" /\ resp' = Fresh
        /\ given' = Append(given, resp)
    BY <1>8 DEF Take, streamVars
  <2>2. Rest' /\ given' \in Seq(Responses)
    BY <1>1, <2>1, HandOver
  <2>3. Fresh \in Responses
    BY DEF Fresh, Responses, Ids, Kinds, Texts
  <2>4. TypeOK'
    BY <1>1, <2>1, <2>2, <2>3 DEF TypeOK
  <2>. QED  BY <1>1, <2>1, <2>2, <2>4, ErrorsLeftAlone
<1>9. CASE lib = Grpc /\ Recv
  <2>1. UNCHANGED <<lib, chan, err, next, took>> /\ at' = "send"
    BY <1>9 DEF Recv
  <2>. QED  BY <1>1, <1>9, <2>1, RecvStep, ErrorsLeftAlone
<1>10. CASE lib = Grpc /\ (RecvFails \/ CloseChannel)
  <2>1. /\ UNCHANGED <<lib, sent, wire, origin, conn, given, resp, next, took>>
        /\ at' \in {"close", "done"} /\ chan' \in {"open", "closed"}
        /\ err' = TRUE
    <3>1. CASE RecvFails
      BY <3>1, <1>1 DEF RecvFails, streamVars, TypeOK
    <3>2. CASE CloseChannel
      BY <3>2, <1>1, <1>10 DEF CloseChannel, streamVars, Errors, ErrorInv, TypeOK
    <3>. QED  BY <3>1, <3>2, <1>10
  <2>2. TypeOK'
    BY <1>1, <2>1 DEF TypeOK
  <2>3. Errors'
    BY <1>10, <2>1, ClientsDiffer DEF Errors, ErrorInv, NilMeansError
  <2>. QED  BY <1>1, <2>1, <2>2, <2>3, LeftAlone
<1>11. ASSUME NEW n \in Callers, lib = Grpc, NextTakes(n)
       PROVE  TypeOK' /\ Rest' /\ Errors'
  <2>1. /\ UNCHANGED <<lib, sent, wire, origin, conn, resp, chan, err>>
        /\ next' = [next EXCEPT ![n] = "took"]
    BY <1>11 DEF NextTakes, streamVars
  <2>2. CASE /\ at = "send" /\ at' = "read" /\ given' = Append(given, resp)
             /\ took' = [took EXCEPT ![n] = resp]
    <3>1. Rest' /\ given' \in Seq(Responses)
      BY <1>1, <1>11, <2>1, <2>2, HandOver
    <3>2. TypeOK'
      BY <1>1, <2>1, <2>2, <3>1 DEF TypeOK
    <3>3. resp # Nil
      BY <1>1, ClientsAssumption DEF TypeOK
    <3>4. ErrorInv'
      BY <1>1, <1>11, <2>1, <2>2, ClientsDiffer DEF Errors, ErrorInv
    <3>5. NilMeansError'
      BY <1>1, <2>1, <2>2, <3>3 DEF Errors, NilMeansError, TypeOK
    <3>. QED  BY <3>1, <3>2, <3>4, <3>5 DEF Errors
  <2>3. CASE /\ chan = "closed" /\ at' = at /\ given' = given
             /\ took' = [took EXCEPT ![n] = Nil]
    <3>1. Rest'
      BY <1>1, <2>1, <2>3, LeftAlone
    <3>2. TypeOK'
      BY <1>1, <2>1, <2>3 DEF TypeOK
    <3>3. err
      BY <1>1, <1>11, <2>3 DEF Errors, ErrorInv
    <3>4. ErrorInv' /\ NilMeansError'
      BY <1>11, <2>1, <3>3, ClientsDiffer DEF ErrorInv, NilMeansError
    <3>. QED  BY <3>1, <3>2, <3>4 DEF Errors
  <2>. QED  BY <1>11, <2>2, <2>3 DEF NextTakes
<1>12. ASSUME NEW n \in Callers, lib = Grpc, NextReturns(n)
       PROVE  TypeOK' /\ Rest' /\ Errors'
  <2>1. /\ UNCHANGED <<lib, sent, wire, origin, conn, given, at, resp, chan, err,
                       took>>
        /\ next' = [next EXCEPT ![n] = "idle"]
    BY <1>12 DEF NextReturns, streamVars
  <2>2. TypeOK'
    BY <1>1, <2>1 DEF TypeOK
  <2>3. ErrorInv'
    BY <1>1, <1>12, <2>1, ClientsDiffer DEF Errors, ErrorInv
  <2>4. NilMeansError'
    BY <1>1, <2>1 DEF Errors, NilMeansError, TypeOK
  <2>. QED  BY <1>1, <2>1, <2>2, <2>3, <2>4, LeftAlone DEF Errors
<1>13. CASE Client
  BY <1>1, <1>5, <1>6, <1>7, <1>8, <1>9, <1>10, <1>11, <1>12, <1>13, ClientSteps
     DEF WatchHttp, Streams, WatchGrpc
<1>. QED  BY <1>2, <1>3, <1>4, <1>5, <1>13 DEF Next

LEMMA InitInv == Init => IInv
<1>. SUFFICES ASSUME Init PROVE IInv
  OBVIOUS
<1>1. TypeOK
  <2>1. Fresh \in Responses
    BY DEF Fresh, Responses, Ids, Kinds, Texts
  <2>2. origin \in Seq(Nat \X Nat)
    <3>1. <<0, 0>> \in Nat \X Nat
      OBVIOUS
    <3>. QED  BY <3>1 DEF Init
  <2>3. /\ sent \in Seq(Responses) /\ given \in Seq(Responses)
        /\ wire \in Seq(Lines \union Responses)
    BY EmptySeq DEF Init
  <2>. QED  BY <2>1, <2>2, <2>3 DEF Init, TypeOK
<1>2. WireInv
  <2>1. /\ origin = <<<<0, 0>>>> /\ wire = <<>> /\ sent = <<>>
        /\ DOMAIN origin = {1} /\ DOMAIN wire = {} /\ Len(origin) = 1
    BY DEF Init
  <2>2. Size[0] = 0
    BY <2>1 DEF Size
  <2>. QED  BY <2>1, <2>2 DEF WireInv, Placed, Chained, Carried
<1>3. ReadInv
  <2>1. Full[0] = 0 /\ origin[1][1] = 0 /\ origin[1][2] = 0 /\ Len(given) = 0
    BY DEF Init, Full
  <2>. QED  BY <2>1 DEF Init, ReadInv
<1>4. SentInv /\ InOrder /\ Len(given) <= Len(sent)
  BY DEF Init, SentInv, InOrder
<1>5. ErrorInv /\ NilMeansError
  BY DEF Init, ErrorInv, NilMeansError
<1>. QED  BY <1>1, <1>2, <1>3, <1>4, <1>5 DEF IInv

-----------------------------------------------------------------------------
(* The wire goes on where the client has read to, and what the client has  *)
(* made of it is a part of the next message: what InOrder and              *)
(* NilMeansError rest on holds in every state (client.go 105-169,          *)
(* grpcclient/client.go 162-190).                                          *)
THEOREM Invariant == Spec => []IInv
<1>1. Init => IInv
  BY InitInv
<1>2. IInv /\ [Next]_vars => IInv'
  BY StepInv
<1>. QED  BY <1>1, <1>2, PTL DEF Spec

(* Callers get the events as the server sent them, none skipped and none   *)
(* mixed with another or with a heartbeat; only the last may have lost the *)
(* end of its data (client.go 119-167).                                    *)
THEOREM EventsInOrder == Spec => []InOrder
<1>1. IInv => InOrder
  BY DEF IInv
<1>. QED  BY <1>1, Invariant, PTL

(* Whoever gets nil from Next gets an error with it, however many callers  *)
(* there are (grpcclient/client.go 162-168, 178-190).                      *)
THEOREM NilComesWithError == Spec => []NilMeansError
<1>1. IInv => NilMeansError
  BY DEF IInv
<1>. QED  BY <1>1, Invariant, PTL

=============================================================================
