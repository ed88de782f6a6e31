--------------------------- MODULE Network_proofs ---------------------------
(***************************************************************************)
(* Proofs about the programs of the network, in the module that holds them *)
(* all (MCNetwork), so that the theorems are about the very definitions    *)
(* its run checks.  Every step of that module leaves a program alone or is *)
(* a step of it, so an invariant of a program is one of the whole.  At the *)
(* end, joins, ARP and sending by themselves.                              *)
(***************************************************************************)
EXTENDS MCNetwork, SequencesExt, SequenceTheorems, FiniteSetTheorems, TLAPS

-----------------------------------------------------------------------------
(* The calls of the SSH client                                               *)

Translated(keys) == [i \in DOMAIN keys |-> C!platform_translate_key(keys[i])]
Pending(key) == IF key = C!NoKey THEN <<>> ELSE <<key>>

KeyTypes ==
  /\ typed \in Seq(Nat) /\ keyboard \in Seq(Nat)
  /\ sent \in Seq(Nat) /\ buffer \in Seq(Nat)
  /\ pending_stdin \in Nat \cup {C!NoKey} /\ remote_window \in Nat

\* Every key is in one place, in order: what was written, what was read, the
\* waiting one, the keyboard.
KeysInOrder ==
  sent \o (buffer \o (Pending(pending_stdin) \o Translated(keyboard))) = Translated(typed)

\* What the loop knows where it stands: platform_read of the keyboard is called
\* with a key there or read, and room in the channel's window; elsewhere nothing
\* has been read and not written.
ReadsWithReason ==
  /\ ~eof_sent
  /\ clientAt = "stdin" => remote_window > 0
  /\ clientAt = "keys" =>
       /\ remote_window > 0
       /\ buffer # <<>> \/ pending_stdin # C!NoKey \/ keyboard # <<>>
  /\ clientAt # "keys" => buffer = <<>>
  /\ Len(buffer) <= remote_window

KeyInv == KeyTypes /\ KeysInOrder /\ ReadsWithReason

\* platform_translate_key gives a byte, never "no key".
LEMMA TranslateType ==
  ASSUME NEW key \in Nat
  PROVE  C!platform_translate_key(key) \in Nat
BY DEF C!platform_translate_key

LEMMA TranslatedType ==
  ASSUME NEW keys \in Seq(Nat)
  PROVE  /\ Translated(keys) \in Seq(Nat)
         /\ Len(Translated(keys)) = Len(keys)
         /\ \A i \in 1 .. Len(keys) : Translated(keys)[i] = C!platform_translate_key(keys[i])
<1>1. \A i \in 1 .. Len(keys) : C!platform_translate_key(keys[i]) \in Nat
  BY TranslateType, ElementOfSeq
<1>2. Translated(keys) = [i \in 1 .. Len(keys) |-> C!platform_translate_key(keys[i])]
  BY DEF Translated
<1> QED
  BY <1>1, <1>2

\* A key more is translated at the end; the first is translated at the head.
LEMMA TranslatedAppend ==
  ASSUME NEW keys \in Seq(Nat), NEW key \in Nat
  PROVE  Translated(Append(keys, key)) = Append(Translated(keys), C!platform_translate_key(key))
<1> DEFINE all == Append(keys, key)
           end == Append(Translated(keys), C!platform_translate_key(key))
<1>1. /\ all \in Seq(Nat) /\ Len(all) = Len(keys) + 1
      /\ \A i \in 1 .. Len(keys) : all[i] = keys[i]
      /\ all[Len(keys) + 1] = key
  OBVIOUS
<1>2. /\ Translated(all) \in Seq(Nat) /\ Len(Translated(all)) = Len(keys) + 1
      /\ \A i \in 1 .. Len(keys) + 1 : Translated(all)[i] = C!platform_translate_key(all[i])
  <2> HIDE DEF all
  <2> QED
    BY <1>1, TranslatedType
<1>3. /\ Translated(keys) \in Seq(Nat) /\ Len(Translated(keys)) = Len(keys)
      /\ \A i \in 1 .. Len(keys) : Translated(keys)[i] = C!platform_translate_key(keys[i])
      /\ C!platform_translate_key(key) \in Nat
  BY TranslatedType, TranslateType
<1>4. /\ end \in Seq(Nat) /\ Len(end) = Len(keys) + 1
      /\ \A i \in 1 .. Len(keys) : end[i] = C!platform_translate_key(keys[i])
      /\ end[Len(keys) + 1] = C!platform_translate_key(key)
  BY <1>3
<1> HIDE DEF all, end
<1>5. \A i \in 1 .. Len(keys) + 1 : Translated(all)[i] = end[i]
  <2>1. \A i \in 1 .. Len(keys) : Translated(all)[i] = end[i]
    <3>1. \A i \in 1 .. Len(keys) : i \in 1 .. Len(keys) + 1
      BY LenProperties
    <3> QED
      BY <3>1, <1>1, <1>2, <1>4
  <2>2. Translated(all)[Len(keys) + 1] = end[Len(keys) + 1]
    <3>1. Len(keys) + 1 \in 1 .. Len(keys) + 1
      BY LenProperties
    <3> QED
      BY <3>1, <1>1, <1>2, <1>4
  <2>3. \A i \in 1 .. Len(keys) + 1 : i \in 1 .. Len(keys) \/ i = Len(keys) + 1
    BY LenProperties
  <2> QED
    BY <2>1, <2>2, <2>3
<1>6. Translated(all) = end
  BY <1>2, <1>4, <1>5, SeqEqual
<1> QED
  BY <1>6 DEF all, end

LEMMA TranslatedHead ==
  ASSUME NEW keys \in Seq(Nat), keys # <<>>
  PROVE  Translated(keys) = <<C!platform_translate_key(Head(keys))>> \o Translated(Tail(keys))
<1> DEFINE first == <<C!platform_translate_key(Head(keys))>>
           rest == Translated(Tail(keys))
           both == first \o rest
<1>1. /\ Head(keys) \in Nat /\ Head(keys) = keys[1] /\ Tail(keys) \in Seq(Nat)
      /\ Len(Tail(keys)) = Len(keys) - 1 /\ Len(keys) \in Nat \ {0}
      /\ \A i \in 1 .. Len(keys) - 1 : Tail(keys)[i] = keys[i + 1]
  BY HeadTailProperties, EmptySeq
<1>2. first \in Seq(Nat) /\ Len(first) = 1 /\ first[1] = C!platform_translate_key(keys[1])
  BY <1>1, TranslateType, SMTT(20)
<1>3. /\ rest \in Seq(Nat) /\ Len(rest) = Len(keys) - 1
      /\ \A i \in 1 .. Len(keys) - 1 : rest[i] = C!platform_translate_key(keys[i + 1])
  BY <1>1, TranslatedType, ZenonT(20)
<1> HIDE DEF first, rest
<1>4. /\ both \in Seq(Nat) /\ Len(both) = Len(keys)
      /\ \A i \in 1 .. Len(keys) :
           both[i] = IF i <= 1 THEN first[i] ELSE rest[i - 1]
  <2>1. Len(first) + Len(rest) = Len(keys)
    BY <1>1, <1>2, <1>3
  <2>2. /\ both \in Seq(Nat) /\ Len(both) = Len(first) + Len(rest)
        /\ \A i \in 1 .. Len(first) + Len(rest) :
             both[i] = IF i <= Len(first) THEN first[i] ELSE rest[i - Len(first)]
    BY <1>2, <1>3, ConcatProperties
  <2> HIDE DEF both
  <2> QED
    BY <2>1, <2>2, <1>2
<1>5. \A i \in 1 .. Len(keys) : both[i] = C!platform_translate_key(keys[i])
  <2> SUFFICES ASSUME NEW i \in 1 .. Len(keys)
               PROVE  both[i] = C!platform_translate_key(keys[i])
    OBVIOUS
  <2> HIDE DEF both
  <2>1. CASE i = 1
    BY <2>1, <1>2, <1>4
  <2>2. CASE i # 1
    <3>1. i - 1 \in 1 .. Len(keys) - 1 /\ ~(i <= 1) /\ (i - 1) + 1 = i
      BY <2>2, <1>1
    <3> QED
      BY <3>1, <1>3, <1>4
  <2> QED
    BY <2>1, <2>2
<1>6. Translated(keys) = both
  <2> HIDE DEF both
  <2> QED
    BY <1>4, <1>5, TranslatedType, SeqEqual
<1> QED
  BY <1>6 DEF first, rest

LEMMA PendingType ==
  ASSUME NEW key \in Nat \cup {C!NoKey}
  PROVE  Pending(key) \in Seq(Nat)
BY DEF Pending, C!NoKey

LEMMA ConcatAppend ==
  ASSUME NEW s \in Seq(Nat), NEW t \in Seq(Nat), NEW key \in Nat
  PROVE  s \o Append(t, key) = Append(s \o t, key)
<1>1. <<key>> \in Seq(Nat) /\ s \o t \in Seq(Nat)
  BY ConcatProperties
<1>2. Append(t, key) = t \o <<key>> /\ Append(s \o t, key) = (s \o t) \o <<key>>
  BY <1>1, AppendIsConcat
<1> QED
  BY <1>1, <1>2, ConcatAssociative

\* The stream under one more key, a key that is taken, read and written.
LEMMA PressInOrder ==
  ASSUME KeyTypes, KeysInOrder, NEW key \in Nat,
         typed' = Append(typed, key), keyboard' = Append(keyboard, key),
         UNCHANGED <<pending_stdin, buffer, sent>>
  PROVE  KeysInOrder'
<1> DEFINE last == C!platform_translate_key(key)
           keys == Translated(keyboard)
           waiting == Pending(pending_stdin)
<1>1. /\ last \in Nat /\ keys \in Seq(Nat) /\ waiting \in Seq(Nat)
      /\ sent \in Seq(Nat) /\ buffer \in Seq(Nat)
  BY TranslateType, TranslatedType, PendingType DEF KeyTypes
<1>2. Translated(keyboard)' = Append(keys, last)
  BY TranslatedAppend DEF KeyTypes
<1>3. Translated(typed)' = Append(Translated(typed), last)
  BY TranslatedAppend DEF KeyTypes
<1>4. Pending(pending_stdin)' = waiting
  BY DEF Pending
<1> HIDE DEF last, keys, waiting
<1>5. waiting \o keys \in Seq(Nat) /\ buffer \o (waiting \o keys) \in Seq(Nat)
  BY <1>1, ConcatProperties
<1>6. waiting \o Append(keys, last) = Append(waiting \o keys, last)
  BY <1>1, ConcatAppend
<1>7. buffer \o Append(waiting \o keys, last) = Append(buffer \o (waiting \o keys), last)
  BY <1>1, <1>5, ConcatAppend
<1>8. sent \o Append(buffer \o (waiting \o keys), last)
      = Append(sent \o (buffer \o (waiting \o keys)), last)
  BY <1>1, <1>5, ConcatAppend
<1>9. sent \o (buffer \o (waiting \o keys)) = Translated(typed)
  BY DEF KeysInOrder, waiting, keys
<1> QED
  BY <1>2, <1>3, <1>4, <1>6, <1>7, <1>8, <1>9 DEF KeysInOrder

LEMMA TakenInOrder ==
  ASSUME KeyTypes, KeysInOrder, C!platform_poll_stdin, UNCHANGED <<typed, buffer, sent>>
  PROVE  /\ KeysInOrder'
         /\ keyboard' \in Seq(Nat) /\ pending_stdin' \in Nat \cup {C!NoKey}
         /\ keyboard # <<>> => pending_stdin' # C!NoKey
<1>1. CASE UNCHANGED <<pending_stdin, keyboard>> /\ (pending_stdin # C!NoKey \/ keyboard = <<>>)
  BY <1>1 DEF KeyTypes, KeysInOrder, Pending, Translated
<1>2. CASE /\ pending_stdin = C!NoKey /\ keyboard # <<>>
           /\ pending_stdin' = C!platform_translate_key(Head(keyboard))
           /\ keyboard' = Tail(keyboard)
  <2> DEFINE first == C!platform_translate_key(Head(keyboard))
  <2>1. Head(keyboard) \in Nat /\ Tail(keyboard) \in Seq(Nat)
    BY <1>2, HeadTailProperties DEF KeyTypes
  <2>2. first \in Nat /\ first # C!NoKey
    BY <2>1, TranslateType, SMTT(20) DEF C!NoKey
  <2>3. Translated(keyboard) = <<first>> \o Translated(keyboard')
    BY <1>2, TranslatedHead DEF KeyTypes
  <2>4. Pending(pending_stdin) = <<>> /\ Pending(pending_stdin') = <<first>>
    BY <1>2, <2>2 DEF Pending
  <2>5. <<>> \o Translated(keyboard) = Translated(keyboard)
    BY TranslatedType, ConcatEmptySeq DEF KeyTypes
  <2>6. Translated(typed') = Translated(typed)
    BY DEF Translated
  <2> HIDE DEF first
  <2>7. KeysInOrder'
    BY <2>3, <2>4, <2>5, <2>6 DEF KeysInOrder
  <2> QED
    BY <1>2, <2>1, <2>2, <2>7 DEF first
<1> QED
  BY <1>1, <1>2 DEF C!platform_poll_stdin

LEMMA ReadInOrder ==
  ASSUME KeyTypes, KeysInOrder, pending_stdin # C!NoKey, C!ReadKey,
         UNCHANGED <<typed, keyboard, sent>>
  PROVE  KeysInOrder' /\ buffer' \in Seq(Nat) /\ Len(buffer') = Len(buffer) + 1
<1> DEFINE keys == Translated(keyboard)
           key == pending_stdin
<1>1. /\ key \in Nat /\ keys \in Seq(Nat) /\ buffer \in Seq(Nat) /\ <<key>> \in Seq(Nat)
  BY TranslatedType DEF KeyTypes
<1>2. Pending(pending_stdin) = <<key>> /\ Pending(pending_stdin') = <<>>
  BY DEF Pending, C!ReadKey
<1>3. Translated(keyboard') = keys /\ Translated(typed') = Translated(typed)
  BY DEF Translated
<1>4. buffer' = Append(buffer, key) /\ buffer' = buffer \o <<key>>
  BY <1>1, AppendIsConcat DEF C!ReadKey
<1> HIDE DEF keys
<1>5. <<>> \o keys = keys /\ (buffer \o <<key>>) \o keys = buffer \o (<<key>> \o keys)
  BY <1>1, ConcatEmptySeq, ConcatAssociative
<1>6. KeysInOrder'
  BY <1>2, <1>3, <1>4, <1>5 DEF KeysInOrder, keys
<1> QED
  BY <1>1, <1>4, <1>6

LEMMA WrittenInOrder ==
  ASSUME KeyTypes, KeysInOrder, sent' = sent \o buffer, buffer' = <<>>,
         UNCHANGED <<typed, keyboard, pending_stdin>>
  PROVE  KeysInOrder' /\ sent' \in Seq(Nat)
<1> DEFINE rest == Pending(pending_stdin) \o Translated(keyboard)
<1>1. /\ rest \in Seq(Nat) /\ sent \in Seq(Nat) /\ buffer \in Seq(Nat)
      /\ sent \o buffer \in Seq(Nat)
  BY TranslatedType, PendingType, ConcatProperties DEF KeyTypes
<1>2. rest' = rest /\ Translated(typed)' = Translated(typed)
  BY DEF Translated, Pending
<1>3. sent \o (buffer \o rest) = Translated(typed)
  BY DEF KeysInOrder
<1>4. (sent' \o (buffer' \o rest') = Translated(typed)') => KeysInOrder'
  BY DEF KeysInOrder
<1> HIDE DEF rest
<1>5. <<>> \o rest = rest /\ (sent \o buffer) \o rest = sent \o (buffer \o rest)
  BY <1>1, ConcatEmptySeq, ConcatAssociative
<1> QED
  BY <1>1, <1>2, <1>3, <1>4, <1>5

\* Steps that leave the keys where they are.
LEMMA KeysKept ==
  ASSUME KeyInv, UNCHANGED <<typed, keyboard, pending_stdin, buffer, sent, eof_sent>>,
         remote_window' \in Nat,
         \/ remote_window' >= remote_window /\ clientAt' # "keys"
              /\ (clientAt' = "stdin" => remote_window' > 0) /\ clientAt # "keys"
         \/ remote_window' = remote_window /\ clientAt' = clientAt
  PROVE  KeyInv'
<1>1. KeyTypes'
  BY DEF KeyInv, KeyTypes
<1>2. KeysInOrder'
  BY DEF KeyInv, KeysInOrder, Pending, Translated
<1>3. ReadsWithReason'
  <2>1. Len(buffer) \in Nat /\ remote_window \in Nat
    BY DEF KeyInv, KeyTypes
  <2> QED
    BY <2>1 DEF KeyInv, ReadsWithReason
<1> QED
  BY <1>1, <1>2, <1>3 DEF KeyInv

LEMMA PressKeepsKeys ==
  ASSUME KeyInv, NEW key \in KeyCodes, C!Press(key)
  PROVE  KeyInv'
<1>1. key \in Nat
  BY NetworkAssumption DEF C!PlatformAssumption
<1>2. /\ typed' = Append(typed, key) /\ keyboard' = Append(keyboard, key)
      /\ UNCHANGED <<pending_stdin, buffer, sent, eof_sent, clientAt, remote_window>>
  BY DEF C!Press
<1>3. keyboard' # <<>> /\ keyboard' \in Seq(Nat) /\ typed' \in Seq(Nat)
  <2>1. typed \in Seq(Nat) /\ keyboard \in Seq(Nat)
    BY DEF KeyInv, KeyTypes
  <2> QED
    BY <1>1, <1>2, <2>1
<1>4. KeyTypes'
  BY <1>2, <1>3 DEF KeyInv, KeyTypes
<1>5. KeysInOrder'
  BY <1>1, <1>2, PressInOrder DEF KeyInv
<1>6. ReadsWithReason'
  BY <1>2, <1>3 DEF KeyInv, ReadsWithReason
<1> QED
  BY <1>4, <1>5, <1>6 DEF KeyInv

LEMMA PollStdinKeepsKeys ==
  ASSUME KeyInv, C!PollStdin
  PROVE  KeyInv'
<1>1. /\ clientAt = "stdin" /\ C!platform_poll_stdin
      /\ clientAt' = (IF pending_stdin' # C!NoKey THEN "keys" ELSE "socket")
      /\ UNCHANGED <<typed, buffer, sent, eof_sent, remote_window>>
  BY DEF C!PollStdin
<1>2. /\ KeysInOrder' /\ keyboard' \in Seq(Nat) /\ pending_stdin' \in Nat \cup {C!NoKey}
  BY <1>1, TakenInOrder DEF KeyInv
<1>3. KeyTypes'
  BY <1>1, <1>2 DEF KeyInv, KeyTypes
<1>4. ReadsWithReason'
  BY <1>1 DEF KeyInv, ReadsWithReason
<1> QED
  BY <1>2, <1>3, <1>4 DEF KeyInv

LEMMA ReadKeysKeepsKeys ==
  ASSUME KeyInv, C!ReadKeys
  PROVE  KeyInv'
<1>1. /\ clientAt = "keys" /\ Len(buffer) < C!Limit
      /\ UNCHANGED <<typed, sent, eof_sent, clientAt, remote_window>>
  BY DEF C!ReadKeys
<1>2. Len(buffer) + 1 <= remote_window
  <2>1. Len(buffer) \in Nat /\ remote_window \in Nat /\ ReadMax \in Nat
    BY NetworkAssumption DEF KeyInv, KeyTypes, C!PlatformAssumption
  <2>2. C!Limit <= remote_window
    BY <2>1 DEF C!Limit
  <2> QED
    BY <1>1, <2>1, <2>2 DEF C!Limit
<1>3. CASE pending_stdin # C!NoKey /\ C!ReadKey /\ UNCHANGED keyboard
  <2>1. KeysInOrder' /\ buffer' \in Seq(Nat) /\ Len(buffer') = Len(buffer) + 1
    BY <1>1, <1>3, ReadInOrder DEF KeyInv
  <2>2. KeyTypes'
    BY <1>1, <1>3, <2>1 DEF KeyInv, KeyTypes, C!ReadKey
  <2>3. buffer' # <<>>
    BY <2>1 DEF KeyInv, KeyTypes
  <2>4. ReadsWithReason'
    BY <1>1, <1>2, <2>1, <2>3 DEF KeyInv, ReadsWithReason
  <2> QED
    BY <2>1, <2>2, <2>4 DEF KeyInv
<1>4. CASE pending_stdin = C!NoKey /\ keyboard # <<>> /\ C!platform_poll_stdin /\ UNCHANGED buffer
  <2>1. /\ KeysInOrder' /\ keyboard' \in Seq(Nat) /\ pending_stdin' \in Nat \cup {C!NoKey}
        /\ pending_stdin' # C!NoKey
    BY <1>1, <1>4, TakenInOrder DEF KeyInv
  <2>2. KeyTypes'
    BY <1>1, <1>4, <2>1 DEF KeyInv, KeyTypes
  <2>3. ReadsWithReason'
    BY <1>1, <1>4, <2>1 DEF KeyInv, ReadsWithReason
  <2> QED
    BY <2>1, <2>2, <2>3 DEF KeyInv
<1> QED
  BY <1>3, <1>4 DEF C!ReadKeys

LEMMA KeysDoneKeepsKeys ==
  ASSUME KeyInv, C!KeysDone
  PROVE  KeyInv'
<1>1. /\ clientAt = "keys" /\ C!KeysRead
      /\ eof_sent' = (buffer = <<>>)
      /\ clientAt' = (IF buffer = <<>> THEN "socket" ELSE "ack")
      /\ sent' = sent \o buffer /\ buffer' = <<>>
      /\ remote_window' = remote_window - Len(buffer)
      /\ UNCHANGED <<typed, keyboard, pending_stdin>>
  BY DEF C!KeysDone
<1>2. buffer # <<>>
  <2>1. remote_window > 0 /\ (buffer # <<>> \/ pending_stdin # C!NoKey \/ keyboard # <<>>)
    BY <1>1 DEF KeyInv, ReadsWithReason
  <2>2. C!Limit > 0
    BY <2>1, NetworkAssumption DEF KeyInv, KeyTypes, C!Limit, C!PlatformAssumption
  <2>3. buffer = <<>> => Len(buffer) # C!Limit
    BY <2>2
  <2> QED
    BY <1>1, <2>1, <2>3 DEF C!KeysRead
<1>3. KeysInOrder' /\ sent' \in Seq(Nat)
  BY <1>1, WrittenInOrder DEF KeyInv
<1>4. remote_window' \in Nat /\ Len(buffer') = 0 /\ buffer' \in Seq(Nat)
  BY <1>1 DEF KeyInv, KeyTypes, ReadsWithReason
<1>5. KeyTypes'
  BY <1>1, <1>3, <1>4 DEF KeyInv, KeyTypes
<1>6. ReadsWithReason'
  <2>1. ~eof_sent' /\ clientAt' = "ack"
    BY <1>1, <1>2
  <2> QED
    BY <2>1, <1>1, <1>4 DEF ReadsWithReason
<1> QED
  BY <1>3, <1>5, <1>6 DEF KeyInv

LEMMA ReadPacketKeepsKeys ==
  ASSUME KeyInv, C!ReadPacket
  PROVE  KeyInv'
<1>1. /\ clientAt = "read" /\ clientAt' = "socket"
      /\ remote_window' \in {remote_window, remote_window + Window}
      /\ UNCHANGED <<typed, keyboard, pending_stdin, buffer, sent, eof_sent>>
  BY DEF C!ReadPacket, C!input
<1>2. remote_window \in Nat /\ Window \in Nat
  BY NetworkAssumption DEF KeyInv, KeyTypes, C!PlatformAssumption
<1>3. remote_window' \in Nat /\ remote_window' >= remote_window
  BY <1>1, <1>2
<1> QED
  BY <1>1, <1>3, KeysKept

LEMMA PlatStepKeepsKeys == KeyInv /\ [C!PlatNext]_(C!platVars) => KeyInv'
<1> SUFFICES ASSUME KeyInv, [C!PlatNext]_(C!platVars) PROVE KeyInv'
  OBVIOUS
<1> remote_window \in Nat
  BY DEF KeyInv, KeyTypes
<1>1. CASE \E key \in KeyCodes : C!Press(key)
  BY <1>1, PressKeepsKeys
<1>2. CASE \E packet \in {"data", "adjust", "fin"} : C!ServerSends(packet)
  BY <1>2, KeysKept DEF C!ServerSends, C!input
<1>3. CASE C!ServerAcknowledges
  BY <1>3, KeysKept DEF C!ServerAcknowledges, C!input
<1>4. CASE C!PollSocket
  <2>1. C!TwoSets => remote_window > 0
    BY DEF C!TwoSets
  <2> QED
    BY <1>4, <2>1, KeysKept DEF C!PollSocket, C!input
<1>5. CASE C!PollStdin
  BY <1>5, PollStdinKeepsKeys
<1>6. CASE C!WaitSocket
  BY <1>6, KeysKept DEF C!WaitSocket, C!input
<1>7. CASE C!ReadKeys
  BY <1>7, ReadKeysKeepsKeys
<1>8. CASE C!KeysDone
  BY <1>8, KeysDoneKeepsKeys
<1>9. CASE C!WaitAck
  BY <1>9, KeysKept DEF C!WaitAck, C!input
<1>10. CASE C!ReadPacket
  BY <1>10, ReadPacketKeepsKeys
<1>11. CASE C!WriteFails \/ C!ReadFails
  BY <1>11, KeysKept DEF C!WriteFails, C!ReadFails, C!input
<1>12. CASE UNCHANGED C!platVars
  BY <1>12, KeysKept DEF C!platVars, C!input
<1> QED
  BY <1>1, <1>2, <1>3, <1>4, <1>5, <1>6, <1>7, <1>8, <1>9, <1>10, <1>11, <1>12
     DEF C!PlatNext, C!Client

LEMMA KeyInit == C!PlatInit => KeyInv
<1> SUFFICES ASSUME C!PlatInit PROVE KeyInv
  OBVIOUS
<1>1. Window \in Nat
  BY NetworkAssumption DEF C!PlatformAssumption
<1>2. Translated(<<>>) = <<>> /\ <<>> \in Seq(Nat) /\ Len(<<>>) = 0
  BY DEF Translated
<1>3. <<>> \o (<<>> \o (<<>> \o <<>>)) = <<>>
  OBVIOUS
<1> QED
  BY <1>1, <1>2, <1>3 DEF C!PlatInit, KeyInv, KeyTypes, KeysInOrder, ReadsWithReason, Pending

LEMMA KeyInvImpliesDelivered == KeyInv => C!KeysDelivered
<1> SUFFICES ASSUME KeyInv PROVE C!KeysDelivered
  OBVIOUS
<1> DEFINE keys == Translated(keyboard)
           waiting == Pending(pending_stdin)
<1>1. /\ keys \in Seq(Nat) /\ waiting \in Seq(Nat) /\ sent \in Seq(Nat) /\ buffer \in Seq(Nat)
  BY TranslatedType, PendingType DEF KeyInv, KeyTypes
<1>2. sent \o (buffer \o (waiting \o keys)) = Translated(typed) /\ ~eof_sent
  BY DEF KeyInv, KeysInOrder, ReadsWithReason
<1>3. (sent \o buffer \o waiting \o keys = Translated(typed) /\ ~eof_sent) => C!KeysDelivered
  BY DEF C!KeysDelivered, Translated, Pending
<1> HIDE DEF keys, waiting
<1>4. /\ sent \o buffer \in Seq(Nat) /\ waiting \o keys \in Seq(Nat)
  BY <1>1, ConcatProperties
<1>5. (sent \o buffer \o waiting) \o keys = (sent \o buffer) \o (waiting \o keys)
  BY <1>1, <1>4, ConcatAssociative, SMTT(20)
<1>6. (sent \o buffer) \o (waiting \o keys) = sent \o (buffer \o (waiting \o keys))
  BY <1>1, <1>4, ConcatAssociative, SMTT(20)
<1> QED
  BY <1>2, <1>3, <1>5, <1>6

LEMMA StepsOfClient == [Next]_networkVars => [C!PlatNext]_(C!platVars)
BY DEF Next, Join, Send, Diagnose, Scan, Client, networkVars, otherVars, clientVars,
       C!platVars, C!input, C!network

(***************************************************************************)
(* Every key pressed is written to the channel of the SSH server once and  *)
(* in order, or is in one of the three places on its way; and the client   *)
(* never takes a moment without keys for the end of the input, which       *)
(* platform_read would tell it by reading nothing: it is called only after *)
(* platform_poll_stdin has found a key, and with room in the window.       *)
(***************************************************************************)
THEOREM KeysAreDelivered == Spec => []KeysDelivered
<1>1. Init => KeyInv
  BY KeyInit DEF Init
<1>2. KeyInv /\ [Next]_networkVars => KeyInv'
  BY StepsOfClient, PlatStepKeepsKeys
<1>3. KeyInv => KeysDelivered
  BY KeyInvImpliesDelivered DEF KeysDelivered
<1> QED
  BY <1>1, <1>2, <1>3, PTL DEF Spec

-----------------------------------------------------------------------------
(* The scan diagnostic                                                       *)

ScanTypes ==
  /\ aps \in Seq(Networks) /\ selected \in Nat /\ open_count \in Nat /\ target \in Nat

\* The table: every network once, none that hides its name, and the open ones
\* counted.
EachOnce ==
  /\ \A i, j \in 1 .. Len(aps) : aps[i] = aps[j] => i = j
  /\ \A i \in 1 .. Len(aps) : aps[i] \notin Hidden
OpenCounted ==
  /\ IsFiniteSet(ToSet(aps) \cap Open)
  /\ open_count = Cardinality(ToSet(aps) \cap Open)

\* What the screen says of it, and what the connection in progress points at.
DrawnAsIs ==
  /\ list = W!draw_scan_list(aps, open_count, selected)
  /\ selected < Len(aps) \/ selected = 0
PointsAtJoined ==
  /\ at = "connect" => target < Len(aps) /\ joined = {W!Entry(target)}
  /\ joined \subseteq chosen \cap Open

ScanInv == ScanTypes /\ EachOnce /\ OpenCounted /\ DrawnAsIs /\ PointsAtJoined

LEMMA ScanInit == W!WifiInit => ScanInv
<1> SUFFICES ASSUME W!WifiInit PROVE ScanInv
  OBVIOUS
<1>1. ToSet(<<>>) \cap Open = {} /\ Len(<<>>) = 0 /\ <<>> \in Seq(Networks)
  BY DEF ToSet
<1>2. IsFiniteSet({}) /\ Cardinality({}) = 0
  BY FS_EmptySet
<1>3. /\ aps = <<>> /\ selected = 0 /\ open_count = 0 /\ target = 0 /\ at = "main"
      /\ list = W!draw_scan_list(aps, open_count, selected) /\ joined = {}
  BY DEF W!WifiInit
<1>4. ScanTypes
  BY <1>1, <1>3 DEF ScanTypes
<1>5. EachOnce
  BY <1>1, <1>3 DEF EachOnce
<1>6. OpenCounted
  BY <1>1, <1>2, <1>3 DEF OpenCounted
<1>7. DrawnAsIs /\ PointsAtJoined
  BY <1>3 DEF DrawnAsIs, PointsAtJoined
<1> QED
  BY <1>4, <1>5, <1>6, <1>7 DEF ScanInv

\* A table with one more entry holds the one more.
LEMMA SetOfAppend ==
  ASSUME NEW Item, NEW s \in Seq(Item), NEW e \in Item
  PROVE  /\ Append(s, e) \in Seq(Item) /\ Len(Append(s, e)) = Len(s) + 1
         /\ \A i \in 1 .. Len(s) : Append(s, e)[i] = s[i]
         /\ Append(s, e)[Len(s) + 1] = e
         /\ ToSet(Append(s, e)) = ToSet(s) \cup {e}
<1> DEFINE all == Append(s, e)
<1>1. /\ all \in Seq(Item) /\ Len(all) = Len(s) + 1 /\ Len(s) \in Nat
      /\ \A i \in 1 .. Len(s) : all[i] = s[i]
      /\ all[Len(s) + 1] = e
      /\ DOMAIN s = 1 .. Len(s) /\ DOMAIN all = 1 .. Len(s) + 1
  OBVIOUS
<1> HIDE DEF all
<1>2. 1 .. Len(s) + 1 = (1 .. Len(s)) \cup {Len(s) + 1}
  BY <1>1
<1>3. ToSet(all) = ToSet(s) \cup {e}
  BY <1>1, <1>2 DEF ToSet
<1> QED
  BY <1>1, <1>3 DEF all

LEMMA ResultKeepsScan ==
  ASSUME ScanInv, NEW bssid \in Networks, W!scan_result(bssid)
  PROVE  ScanInv'
<1>1. UNCHANGED <<selected, at, target, scanning, joined, chosen>>
  BY DEF W!scan_result, W!radio
<1>2. CASE UNCHANGED <<aps, open_count, list>>
  BY <1>1, <1>2 DEF ScanInv, ScanTypes, EachOnce, OpenCounted, DrawnAsIs, PointsAtJoined, W!Entry
<1>3. CASE /\ W!Listed(bssid)
           /\ aps' = Append(aps, bssid)
           /\ open_count' = (IF bssid \in Open THEN open_count + 1 ELSE open_count)
           /\ list' = W!draw_scan_list(aps', open_count', selected)
  <2>1. bssid \notin Hidden /\ \A i \in 1 .. Len(aps) : aps[i] # bssid
    BY <1>3 DEF W!Listed, W!Known, W!Contains
  <2>2. /\ aps \in Seq(Networks) /\ Len(aps) \in Nat /\ open_count \in Nat
        /\ selected \in Nat /\ target \in Nat
    BY DEF ScanInv, ScanTypes
  <2>3. /\ aps' \in Seq(Networks) /\ Len(aps') = Len(aps) + 1
        /\ \A i \in 1 .. Len(aps) : aps'[i] = aps[i]
        /\ aps'[Len(aps) + 1] = bssid
        /\ ToSet(aps') = ToSet(aps) \cup {bssid}
    BY <1>3, <2>2, SetOfAppend
  <2>4. ScanTypes'
    BY <1>1, <1>3, <2>2, <2>3 DEF ScanTypes
  <2>5. EachOnce'
    <3>1. \A i \in 1 .. Len(aps') : i \in 1 .. Len(aps) \/ i = Len(aps) + 1
      BY <2>2, <2>3
    <3> QED
      BY <2>1, <2>3, <3>1 DEF ScanInv, EachOnce
  <2>6. OpenCounted'
    <3> DEFINE opens == ToSet(aps) \cap Open
    <3>1. bssid \notin opens
      <4>1. DOMAIN aps = 1 .. Len(aps)
        BY <2>2
      <4> QED
        BY <2>1, <4>1 DEF ToSet
    <3>2. IsFiniteSet(opens) /\ open_count = Cardinality(opens)
      BY DEF ScanInv, OpenCounted
    <3>3. CASE bssid \in Open
      <4>1. ToSet(aps') \cap Open = opens \cup {bssid}
        BY <2>3, <3>3
      <4> HIDE DEF opens
      <4>2. IsFiniteSet(opens \cup {bssid}) /\ Cardinality(opens \cup {bssid}) = Cardinality(opens) + 1
        BY <3>1, <3>2, FS_AddElement
      <4> QED
        BY <1>3, <3>2, <3>3, <4>1, <4>2 DEF OpenCounted
    <3>4. CASE bssid \notin Open
      <4>1. ToSet(aps') \cap Open = opens
        BY <2>3, <3>4
      <4> QED
        BY <1>3, <3>2, <3>4, <4>1 DEF OpenCounted
    <3> QED
      BY <3>3, <3>4
  <2>7. DrawnAsIs'
    BY <1>1, <1>3, <2>2, <2>3 DEF ScanInv, DrawnAsIs
  <2>8. PointsAtJoined'
    <3>1. target < Len(aps) => target + 1 \in 1 .. Len(aps) /\ target < Len(aps')
      BY <2>2, <2>3
    <3> QED
      BY <1>1, <2>3, <3>1 DEF ScanInv, PointsAtJoined, W!Entry
  <2> QED
    BY <2>4, <2>5, <2>6, <2>7, <2>8 DEF ScanInv
<1> QED
  BY <1>2, <1>3 DEF W!scan_result

\* Steps that keep the table: the mark may move to an entry, and a connection
\* may begin or end.
LEMMA TableKept ==
  ASSUME ScanInv, UNCHANGED <<aps, open_count>>
  PROVE  /\ EachOnce' /\ OpenCounted'
         /\ aps \in Seq(Networks) /\ Len(aps) \in Nat /\ selected \in Nat /\ target \in Nat
         /\ selected' \in Nat /\ target' \in Nat => ScanTypes'
BY DEF ScanInv, ScanTypes, EachOnce, OpenCounted

LEMMA StartScanKeepsScan == ASSUME ScanInv, W!start_scan PROVE ScanInv'
<1>1. /\ aps' = <<>> /\ open_count' = 0 /\ selected' = 0
      /\ list' = W!draw_scan_list(<<>>, 0, 0)
      /\ at' # "connect" /\ UNCHANGED <<target, joined, chosen>>
  BY DEF W!start_scan, W!ClearTable
<1>2. ToSet(<<>>) \cap Open = {} /\ Len(<<>>) = 0 /\ <<>> \in Seq(Networks)
  BY DEF ToSet
<1>3. IsFiniteSet({}) /\ Cardinality({}) = 0
  BY FS_EmptySet
<1>4. ScanTypes' /\ EachOnce' /\ DrawnAsIs'
  BY <1>1, <1>2 DEF ScanInv, ScanTypes, EachOnce, DrawnAsIs
<1>5. OpenCounted'
  BY <1>1, <1>2, <1>3 DEF OpenCounted
<1>6. PointsAtJoined'
  BY <1>1 DEF ScanInv, PointsAtJoined
<1> QED
  BY <1>4, <1>5, <1>6 DEF ScanInv

LEMMA ConnectKeepsScan == ASSUME ScanInv, W!connect_selected_open PROVE ScanInv'
<1>1. /\ at = "main" /\ aps # <<>>
      /\ chosen' = {list.entries[list.mark + 1]}
      /\ \/ /\ W!Entry(selected) \in Open
            /\ at' = "connect" /\ target' = selected /\ joined' = {W!Entry(selected)}
         \/ joined' = {} /\ UNCHANGED <<at, target>>
      /\ UNCHANGED <<aps, selected, open_count, list>>
  BY DEF W!connect_selected_open
<1>2. /\ aps \in Seq(Networks) /\ Len(aps) \in Nat /\ selected \in Nat /\ target \in Nat
      /\ EachOnce' /\ OpenCounted' /\ ScanTypes'
  <2>1. selected' \in Nat /\ target' \in Nat
    BY <1>1 DEF ScanInv, ScanTypes
  <2> QED
    BY <1>1, <2>1, TableKept
<1>3. selected < Len(aps)
  <2>1. Len(aps) > 0
    BY <1>1, <1>2
  <2> QED
    BY <1>2, <2>1 DEF ScanInv, DrawnAsIs
<1>4. list.entries[list.mark + 1] = W!Entry(selected)
  BY DEF ScanInv, DrawnAsIs, W!draw_scan_list, W!Entry
<1>5. DrawnAsIs'
  BY <1>1 DEF ScanInv, DrawnAsIs
<1>6. PointsAtJoined'
  BY <1>1, <1>3, <1>4 DEF PointsAtJoined, W!Entry
<1> QED
  BY <1>2, <1>5, <1>6 DEF ScanInv

LEMMA MoveKeepsScan ==
  ASSUME ScanInv, NEW delta \in {-1, 1}, W!move_selection(delta)
  PROVE  ScanInv'
<1>1. /\ at = "main" /\ aps # <<>>
      /\ selected' = (IF selected + delta < 0 THEN Len(aps) - 1
                      ELSE IF selected + delta >= Len(aps) THEN 0 ELSE selected + delta)
      /\ list' = W!draw_scan_list(aps, open_count, selected')
      /\ UNCHANGED <<aps, open_count, at, target, joined, chosen>>
  BY DEF W!move_selection, W!radio
<1>2. aps \in Seq(Networks) /\ selected \in Nat /\ target \in Nat
  BY DEF ScanInv, ScanTypes
<1>3. Len(aps) \in Nat /\ Len(aps) > 0
  BY <1>1, <1>2
<1>4. selected' \in Nat /\ selected' < Len(aps) /\ target' \in Nat
  BY <1>1, <1>2, <1>3
<1>5. EachOnce' /\ OpenCounted' /\ ScanTypes'
  BY <1>1, <1>4, TableKept
<1>6. DrawnAsIs'
  BY <1>1, <1>4 DEF DrawnAsIs
<1>7. PointsAtJoined'
  BY <1>1 DEF ScanInv, PointsAtJoined
<1> QED
  BY <1>5, <1>6, <1>7 DEF ScanInv

\* The end of a scan, of its deadline and of a connection, and the key q.
LEMMA OthersKeepScan ==
  ASSUME ScanInv, UNCHANGED <<aps, selected, open_count, target, joined, chosen>>,
         list' \in {list, W!draw_scan_list(aps, open_count, selected)},
         at' = "connect" => at = "connect"
  PROVE  ScanInv'
<1>1. EachOnce' /\ OpenCounted' /\ ScanTypes'
  BY TableKept DEF ScanInv, ScanTypes
<1>2. DrawnAsIs'
  BY DEF ScanInv, DrawnAsIs
<1>3. PointsAtJoined'
  BY DEF ScanInv, PointsAtJoined, W!Entry
<1> QED
  BY <1>1, <1>2, <1>3 DEF ScanInv

LEMMA ScanStep == ScanInv /\ [W!WifiNext]_(W!wifiVars) => ScanInv'
<1> SUFFICES ASSUME ScanInv, [W!WifiNext]_(W!wifiVars) PROVE ScanInv'
  OBVIOUS
<1>1. CASE \E bssid \in Networks : W!scan_result(bssid)
  BY <1>1, ResultKeepsScan
<1>2. CASE W!ScanEnds
  BY <1>2, OthersKeepScan DEF W!ScanEnds
<1>3. CASE W!start_scan
  BY <1>3, StartScanKeepsScan
<1>4. CASE W!ScanReturns
  BY <1>4, OthersKeepScan DEF W!ScanReturns, W!radio
<1>5. CASE W!connect_selected_open
  BY <1>5, ConnectKeepsScan
<1>6. CASE W!ConnectReturns
  BY <1>6, OthersKeepScan DEF W!ConnectReturns, W!radio
<1>7. CASE \E delta \in {-1, 1} : W!move_selection(delta)
  BY <1>7, MoveKeepsScan
<1>8. CASE W!Quit
  BY <1>8, OthersKeepScan DEF W!Quit
<1>9. CASE UNCHANGED W!wifiVars
  BY <1>9, OthersKeepScan DEF W!wifiVars, W!radio
<1> QED
  BY <1>1, <1>2, <1>3, <1>4, <1>5, <1>6, <1>7, <1>8, <1>9 DEF W!WifiNext

LEMMA StepsOfScan == [Next]_networkVars => [W!WifiNext]_(W!wifiVars)
BY DEF Next, Join, Send, Diagnose, Scan, Client, networkVars, otherVars, scanVars,
       W!wifiVars, W!radio

LEMMA ScanInvImpliesShown == ScanInv => TableShown
<1> SUFFICES ASSUME ScanInv PROVE TableShown
  OBVIOUS
<1>1. DOMAIN aps = 1 .. Len(aps)
  BY DEF ScanInv, ScanTypes
<1>2. IsInjective(aps) /\ ToSet(aps) \cap Hidden = {}
  BY <1>1 DEF ScanInv, EachOnce, IsInjective, ToSet
<1>3. W!IsInjective(aps) /\ W!ToSet(aps) = ToSet(aps)
  BY <1>2 DEF IsInjective, W!IsInjective, ToSet, W!ToSet
<1>4. open_count = W!Cardinality(W!ToSet(aps) \cap Open)
  BY <1>3 DEF ScanInv, OpenCounted, Cardinality, W!Cardinality, IsFiniteSet, W!IsFiniteSet
<1>5. /\ list = W!draw_scan_list(aps, open_count, selected)
      /\ selected < Len(aps) \/ selected = 0
  BY DEF ScanInv, DrawnAsIs
<1>6. at = "connect" => {W!Entry(target)} = joined
  BY DEF ScanInv, PointsAtJoined
<1>7. W!TableShown
  BY <1>2, <1>3, <1>4, <1>5, <1>6 DEF W!TableShown
<1>8. W!AttemptsMarked
  BY DEF ScanInv, PointsAtJoined, W!AttemptsMarked
<1> QED
  BY <1>7, <1>8 DEF TableShown

(***************************************************************************)
(* The screen of the scan diagnostic shows the table as it is, which a     *)
(* result callback changes at any poll: each network once, the open ones   *)
(* counted, the mark on an entry.  The entry that connect_selected_open    *)
(* points at through its wait is the one it asked for, and only an open    *)
(* network that was marked is tried.                                       *)
(***************************************************************************)
THEOREM TableIsShown == Spec => []TableShown
<1>1. Init => ScanInv
  BY ScanInit DEF Init
<1>2. ScanInv /\ [Next]_networkVars => ScanInv'
  BY StepsOfScan, ScanStep
<1>3. ScanInv => TableShown
  BY ScanInvImpliesShown
<1> QED
  BY <1>1, <1>2, <1>3, PTL DEF Spec

-----------------------------------------------------------------------------
(* The network diagnostic                                                    *)

Routers == {Router[s] : s \in {"s1", "s3"}}
Kinds == {"ping", "dns"}

\* The gateway is a router that a server has named.
GatewayNamed ==
  /\ \A r \in replies : r.server \in {"s1", "s3"}
  /\ info.gateway \in Routers \cup {None}

DiagTypes ==
  /\ wait # "none" => step \in Kinds
  /\ hop_pointer \in {"gateway", "target"}
  /\ verdict \in [Kinds -> {"none", "reply", "failed"}]

\* While arp_resolve waits, the pointer main has given it still leads to the
\* address it has asked for, and next_hop_for was right about the target.
AsksForHop ==
  wait = "arp" =>
    /\ arp_ready => arp_mac = arp_target
    /\ ~moved => /\ arp_target = G!Hop
                 /\ hop_pointer = "gateway" => info.gateway # None /\ G!To \notin Near

Right(query) ==
  /\ query.mac \in {query.to} \cup Routers
  /\ query.to \in Near => query.mac = query.to
QueriesRight == ~moved => \A query \in queries : Right(query)

Answered(kind) == \E query \in replied : query.kind = kind
RepliesAnswer ==
  /\ ping_reply => Answered("ping")
  /\ dns_reply => Answered("dns")
  /\ \A kind \in Kinds : verdict[kind] = "reply" => Answered(kind)

DiagInv == GatewayNamed /\ DiagTypes /\ AsksForHop /\ QueriesRight /\ RepliesAnswer

\* A program that does not run has sent nothing.
NothingAsked == queries = {} /\ verdict = [ping |-> "none", dns |-> "none"]
AskInv == IF machine = "diagnostic" THEN DiagInv ELSE NothingAsked

LEMMA DiagStarts == G!DiagInit => DiagInv /\ NothingAsked
<1> SUFFICES ASSUME G!DiagInit PROVE DiagInv /\ NothingAsked
  OBVIOUS
<1>1. GatewayNamed
  BY DEF G!DiagInit, G!DhcpInit, G!NoInfo, GatewayNamed
<1>2. /\ wait = "none" /\ hop_pointer = "target" /\ queries = {} /\ ping_reply = FALSE
      /\ dns_reply = FALSE /\ verdict = [ping |-> "none", dns |-> "none"]
  BY DEF G!DiagInit
<1>3. verdict \in [Kinds -> {"none", "reply", "failed"}]
      /\ \A kind \in Kinds : verdict[kind] = "none"
  BY <1>2 DEF Kinds
<1> QED
  BY <1>1, <1>2, <1>3
     DEF DiagInv, NothingAsked, DiagTypes, AsksForHop, QueriesRight, RepliesAnswer

\* The steps of the join, the radio and the servers.
LEMMA GatewayStays ==
  ASSUME DiagInv, UNCHANGED <<info, replies>>
  PROVE  GatewayNamed'
BY DEF DiagInv, GatewayNamed

LEMMA ServerAdds ==
  ASSUME DiagInv, NEW s \in {"s1", "s3"}, NEW type,
         replies' = replies \cup {G!Reply(type, s)}, UNCHANGED info
  PROVE  GatewayNamed'
<1>1. G!Reply(type, s).server = s
  BY DEF G!Reply
<1> QED
  BY <1>1 DEF DiagInv, GatewayNamed

\* While no ARP request is waited for, what main keeps of an exchange is not
\* touched by a change of the configuration.
LEMMA ExchangeKept ==
  ASSUME DiagInv,
         UNCHANGED <<hop_pointer, queries, replied, verdict, ping_reply, dns_reply, moved>>,
         wait' # "arp", wait' # "none" => step' \in Kinds
  PROVE  DiagTypes' /\ AsksForHop' /\ QueriesRight' /\ RepliesAnswer'
<1>1. DiagTypes'
  BY DEF DiagInv, DiagTypes
<1>2. AsksForHop'
  BY DEF AsksForHop
<1>3. QueriesRight' /\ RepliesAnswer'
  BY DEF DiagInv, QueriesRight, RepliesAnswer, Right, Answered
<1> QED
  BY <1>1, <1>2, <1>3

LEMMA ObtainsKeepsDiag == ASSUME DiagInv, G!Obtains PROVE DiagInv'
<1>1. /\ step = "net" /\ (G!JoinStart \/ G!Waits)
      /\ UNCHANGED <<wait, hop_pointer, queries, replied, verdict, ping_reply, dns_reply, moved>>
  BY DEF G!Obtains, G!arp, G!frames
<1>2. wait = "none"
  BY <1>1 DEF DiagInv, DiagTypes, Kinds
<1>3. replies' = replies /\ info' \in {info, G!NoInfo}
  BY <1>1 DEF G!JoinStart, G!Waits, G!JoinFails, G!Joined, G!OfferSeen, G!OfferTimeout,
              G!AckSeen, G!AckTimeout
<1>4. GatewayNamed'
  BY <1>3 DEF DiagInv, GatewayNamed, G!NoInfo
<1>5. DiagTypes' /\ AsksForHop' /\ QueriesRight' /\ RepliesAnswer'
  BY <1>1, <1>2, ExchangeKept
<1> QED
  BY <1>4, <1>5 DEF DiagInv

\* arp_resolve begins: by ping_host, and by dns_query when it knows a server.
LEMMA AskingKeepsDiag ==
  ASSUME DiagInv, NEW ip, step \in Kinds, step' = step, wait' = "arp", arp_ready' = FALSE,
         hop_pointer' = G!next_hop_for(ip),
         arp_target' = (IF hop_pointer' = "gateway" THEN info.gateway ELSE ip),
         G!To' = ip,
         UNCHANGED <<info, replies, queries, replied, verdict, ping_reply, dns_reply, moved>>
  PROVE  DiagInv'
<1>1. GatewayNamed'
  BY GatewayStays
<1>2. hop_pointer' \in {"gateway", "target"}
  BY DEF G!next_hop_for
<1>3. DiagTypes'
  BY <1>2 DEF DiagInv, DiagTypes
<1>4. arp_target' = G!Hop'
  BY DEF G!Hop
<1>5. hop_pointer' = "gateway" => info'.gateway # None /\ G!To' \notin Near
  BY DEF G!next_hop_for, G!same_subnet
<1>6. AsksForHop'
  BY <1>4, <1>5 DEF AsksForHop
<1>7. QueriesRight' /\ RepliesAnswer'
  BY DEF DiagInv, QueriesRight, RepliesAnswer, Right, Answered
<1> QED
  BY <1>1, <1>3, <1>6, <1>7 DEF DiagInv

LEMMA PingKeepsDiag == ASSUME DiagInv, G!ping_host PROVE DiagInv'
<1>1. /\ step = "ping" /\ step' = step /\ wait' = "arp" /\ arp_ready' = FALSE
      /\ hop_pointer' = G!next_hop_for(ping_ip)
      /\ arp_target' = (IF hop_pointer' = "gateway" THEN info.gateway ELSE ping_ip)
      /\ UNCHANGED <<info, replies, ping_ip, queries, replied, verdict, ping_reply, dns_reply, moved>>
  BY DEF G!ping_host, G!arp_resolve, G!dhcpVars, G!client
<1>2. G!To' = ping_ip
  BY <1>1 DEF G!To
<1>3. step \in Kinds
  BY <1>1 DEF Kinds
<1> QED
  BY <1>1, <1>2, <1>3, AskingKeepsDiag

LEMMA DnsKeepsDiag == ASSUME DiagInv, G!dns_query PROVE DiagInv'
<1> DEFINE ip == G!DnsIp(dns_pointer')
<1>1. /\ step = "dns" /\ wait = "none"
      /\ hop_pointer' = G!next_hop_for(ip)
      /\ UNCHANGED <<info, replies, ping_reply, dns_reply, moved>>
  BY DEF G!dns_query, G!dhcpVars, G!client
<1>2. CASE ip = None
  <2>1. /\ step' = "idle" /\ verdict' = [verdict EXCEPT !.dns = "failed"]
        /\ UNCHANGED <<arp_ready, arp_target, wait, queries, replied>>
    BY <1>2 DEF G!dns_query, G!frames
  <2>2. GatewayNamed'
    BY <1>1, GatewayStays
  <2>3. /\ verdict' \in [Kinds -> {"none", "reply", "failed"}]
        /\ \A kind \in Kinds : verdict'[kind] = "reply" => verdict[kind] = "reply"
    BY <2>1 DEF DiagInv, DiagTypes, Kinds
  <2>4. DiagTypes'
    BY <1>1, <2>1, <2>3 DEF DiagTypes, G!next_hop_for
  <2>5. AsksForHop'
    BY <1>1, <2>1 DEF AsksForHop
  <2>6. QueriesRight' /\ RepliesAnswer'
    BY <1>1, <2>1, <2>3 DEF DiagInv, QueriesRight, RepliesAnswer, Right, Answered
  <2> QED
    BY <2>2, <2>4, <2>5, <2>6 DEF DiagInv
<1>3. CASE ip # None
  <2>1. /\ step' = step /\ verdict' = verdict /\ wait' = "arp" /\ arp_ready' = FALSE
        /\ arp_target' = (IF hop_pointer' = "gateway" THEN info.gateway ELSE ip)
        /\ UNCHANGED <<queries, replied>>
    BY <1>3 DEF G!dns_query, G!arp_resolve
  <2>2. G!To' = ip
    BY <1>1, <2>1 DEF G!To, G!DnsIp, G!Dns
  <2>3. step \in Kinds
    BY <1>1 DEF Kinds
  <2> HIDE DEF ip
  <2> QED
    BY <1>1, <2>1, <2>2, <2>3, AskingKeepsDiag
<1> QED
  BY <1>2, <1>3

\* A verdict: the program goes on to the next step.
LEMMA ConcludesKeepsDiag ==
  ASSUME DiagInv, NEW result \in {"reply", "failed"}, G!Concludes(result), step \in Kinds,
         result = "reply" => Answered(step),
         UNCHANGED <<info, replies, hop_pointer, queries, replied, ping_reply, dns_reply, moved>>
  PROVE  DiagInv'
<1>1. verdict' = [verdict EXCEPT ![step] = result] /\ wait' = "none"
  BY DEF G!Concludes
<1>2. /\ verdict' \in [Kinds -> {"none", "reply", "failed"}]
      /\ \A kind \in Kinds : verdict'[kind] = "reply" => Answered(kind)
  BY <1>1 DEF DiagInv, DiagTypes, RepliesAnswer
<1>3. DiagTypes'
  BY <1>1, <1>2 DEF DiagInv, DiagTypes
<1>4. AsksForHop'
  BY <1>1 DEF AsksForHop
<1>5. QueriesRight' /\ RepliesAnswer'
  BY <1>2 DEF DiagInv, QueriesRight, RepliesAnswer, Right, Answered
<1> QED
  BY <1>3, <1>4, <1>5, GatewayStays DEF DiagInv

LEMMA RetryKeepsDiag == ASSUME DiagInv, G!ArpRetry PROVE DiagInv'
<1>1. /\ wait = "arp" /\ step \in Kinds
      /\ UNCHANGED <<info, replies, ping_ip, dns_pointer, hop_pointer, arp_target, arp_mac,
                     arp_ready, ping_reply, dns_reply, queries, replied, moved>>
  BY DEF DiagInv, DiagTypes, G!ArpRetry, G!ArpTimeout, G!dhcpVars, G!client
<1>2. CASE G!Concludes("failed")
  BY <1>1, <1>2, ConcludesKeepsDiag
<1>3. CASE UNCHANGED <<step, wait, verdict>>
  <2>1. G!Hop' = G!Hop /\ G!To' = G!To
    BY <1>1, <1>3 DEF G!Hop, G!To, G!DnsIp, G!Dns
  <2>2. DiagTypes' /\ AsksForHop'
    BY <1>1, <1>3, <2>1 DEF DiagInv, DiagTypes, AsksForHop
  <2>3. QueriesRight' /\ RepliesAnswer'
    BY <1>1, <1>3 DEF DiagInv, QueriesRight, RepliesAnswer, Right, Answered
  <2> QED
    BY <1>1, <2>2, <2>3, GatewayStays DEF DiagInv
<1> QED
  BY <1>2, <1>3 DEF G!ArpRetry, G!ArpTimeout

LEMMA ResolvedKeepsDiag == ASSUME DiagInv, G!Resolved PROVE DiagInv'
<1> DEFINE query == [kind |-> step, to |-> G!To, mac |-> arp_mac]
<1>1. /\ wait = "arp" /\ arp_ready /\ wait' = "reply"
      /\ queries' = queries \cup {query}
      /\ ping_reply' = (step # "ping" /\ ping_reply)
      /\ dns_reply' = (step # "dns" /\ dns_reply)
      /\ UNCHANGED <<info, replies, step, hop_pointer, replied, verdict, moved>>
  BY DEF G!Resolved, G!dhcpVars, G!client, G!arp
<1>2. ~moved => Right(query)
  <2> SUFFICES ASSUME ~moved PROVE Right(query)
    OBVIOUS
  <2>1. /\ arp_mac = G!Hop
        /\ hop_pointer = "gateway" => info.gateway # None /\ G!To \notin Near
    BY <1>1 DEF DiagInv, AsksForHop
  <2>2. CASE hop_pointer = "gateway"
    BY <2>1, <2>2 DEF Right, G!Hop, DiagInv, GatewayNamed
  <2>3. CASE hop_pointer # "gateway"
    BY <2>1, <2>3 DEF Right, G!Hop
  <2> QED
    BY <2>2, <2>3
<1> HIDE DEF query
<1>3. QueriesRight'
  BY <1>1, <1>2 DEF DiagInv, QueriesRight, Right
<1>4. DiagTypes' /\ AsksForHop'
  BY <1>1 DEF DiagInv, DiagTypes, AsksForHop
<1>5. RepliesAnswer'
  BY <1>1 DEF DiagInv, RepliesAnswer, Answered
<1> QED
  BY <1>1, <1>3, <1>4, <1>5, GatewayStays DEF DiagInv

LEMMA ReplyKeepsDiag == ASSUME DiagInv, G!ReplySeen \/ G!ReplyTimeout PROVE DiagInv'
<1>1. /\ wait = "reply" /\ step \in Kinds
      /\ \/ G!Concludes("reply") /\ G!Reply_Expected
         \/ G!Concludes("failed")
      /\ UNCHANGED <<info, replies, hop_pointer, queries, replied, ping_reply, dns_reply, moved>>
  BY DEF DiagInv, DiagTypes, G!ReplySeen, G!ReplyTimeout, G!dhcpVars, G!client, G!arp, G!frames
<1>2. G!Reply_Expected => Answered(step)
  BY <1>1 DEF G!Reply_Expected, DiagInv, RepliesAnswer, Kinds
<1> QED
  BY <1>1, <1>2, ConcludesKeepsDiag

\* A DHCP reply that changes the gateway or the name server in a wait for ARP
\* is what moved tells; another one leaves the hop as it is.
LEMMA DhcpFrameKeepsDiag ==
  ASSUME DiagInv, NEW r \in replies, G!DhcpFrame(r)
  PROVE  DiagInv'
<1>1. /\ info'.gateway = G!GatewayAfter(r) /\ replies' = replies
      /\ moved' = (moved \/ (wait = "arp" /\ (G!GatewayAfter(r) # info.gateway
                                              \/ info'.dns # info.dns)))
      /\ UNCHANGED <<step, wait, ping_ip, hop_pointer, dns_pointer, arp_target, arp_mac,
                     arp_ready, ping_reply, dns_reply, queries, replied, verdict>>
  BY DEF G!DhcpFrame, G!parse_dhcp, G!arp, G!frames
<1>2. GatewayNamed'
  BY <1>1 DEF DiagInv, GatewayNamed, G!GatewayAfter, Routers
<1>3. DiagTypes' /\ RepliesAnswer'
  BY <1>1 DEF DiagInv, DiagTypes, RepliesAnswer, Answered
<1>4. AsksForHop'
  <2> SUFFICES ASSUME wait = "arp", ~moved'
               PROVE  /\ arp_target = G!Hop'
                      /\ hop_pointer = "gateway" => info'.gateway # None /\ G!To' \notin Near
    BY <1>1 DEF DiagInv, AsksForHop
  <2>1. ~moved /\ info'.gateway = info.gateway /\ info'.dns = info.dns
    BY <1>1
  <2>2. G!Hop' = G!Hop /\ G!To' = G!To
    BY <1>1, <2>1 DEF G!Hop, G!To, G!DnsIp, G!Dns
  <2> QED
    BY <2>1, <2>2 DEF DiagInv, AsksForHop
<1>5. QueriesRight'
  BY <1>1 DEF DiagInv, QueriesRight, Right
<1> QED
  BY <1>2, <1>3, <1>4, <1>5 DEF DiagInv

\* Steps that leave the exchange in progress alone, an answer apart.
LEMMA FramesKeepDiag ==
  ASSUME DiagInv, GatewayNamed',
         UNCHANGED <<wait, ping_ip, hop_pointer, dns_pointer, arp_target, queries,
                     verdict, moved>>,
         info' = info, step' = step \/ wait = "none",
         arp_ready' => arp_mac' = arp_target \/ UNCHANGED <<arp_mac, arp_ready>>,
         replied \subseteq replied',
         ping_reply' => ping_reply \/ Answered("ping"),
         dns_reply' => dns_reply \/ Answered("dns")
  PROVE  DiagInv'
<1>1. DiagTypes'
  BY DEF DiagInv, DiagTypes
<1>2. step' = step => G!Hop' = G!Hop /\ G!To' = G!To
  BY DEF G!Hop, G!To, G!DnsIp, G!Dns
<1>3. AsksForHop'
  BY <1>2 DEF DiagInv, AsksForHop
<1>4. \A kind \in Kinds : Answered(kind) => Answered(kind)'
  BY DEF Answered
<1>5. RepliesAnswer'
  BY <1>4 DEF DiagInv, RepliesAnswer, Kinds
<1>6. QueriesRight'
  BY DEF DiagInv, QueriesRight, Right
<1> QED
  BY <1>1, <1>3, <1>5, <1>6 DEF DiagInv

LEMMA ArpFrameKeepsDiag == ASSUME DiagInv, NEW host, G!parse_arp(host) PROVE DiagInv'
<1>1. /\ (arp_mac' = host /\ arp_ready' = TRUE /\ host = arp_target) \/ UNCHANGED <<arp_mac, arp_ready>>
      /\ UNCHANGED <<info, replies, step, wait, ping_ip, hop_pointer, dns_pointer, arp_target,
                     queries, replied, ping_reply, dns_reply, verdict, moved>>
  BY DEF G!parse_arp, G!ForTarget, G!dhcpVars, G!client, G!frames
<1> QED
  BY <1>1, GatewayStays, FramesKeepDiag

LEMMA Ipv4FrameKeepsDiag ==
  ASSUME DiagInv, NEW query \in queries, G!parse_ipv4_frame(query)
  PROVE  DiagInv'
<1>1. /\ query \in replied
      /\ ping_reply' = (query.kind = "ping" \/ ping_reply)
      /\ dns_reply' = (query.kind = "dns" \/ dns_reply)
      /\ UNCHANGED <<info, replies, step, wait, ping_ip, hop_pointer, dns_pointer, arp_target,
                     arp_mac, arp_ready, queries, replied, verdict, moved>>
  BY DEF G!parse_ipv4_frame, G!dhcpVars, G!client, G!arp, G!frames
<1>2. \A kind \in Kinds : query.kind = kind => Answered(kind)
  BY <1>1 DEF Answered
<1> QED
  BY <1>1, <1>2, GatewayStays, FramesKeepDiag DEF Kinds

LEMMA WorldKeepsDiag ==
  ASSUME DiagInv,
         \/ G!Quit \/ G!DhcpWorld
         \/ \E host \in G!Hosts : G!HostAnswers(host)
         \/ \E query \in queries : G!QueryAnswered(query)
  PROVE  DiagInv'
<1>1. CASE G!DhcpWorld
  <2>1. /\ UNCHANGED <<step, wait, ping_ip, hop_pointer, dns_pointer, arp_target, arp_mac,
                       arp_ready, queries, replied, ping_reply, dns_reply, verdict, moved>>
        /\ info' = info
    BY <1>1 DEF G!DhcpWorld, G!arp, G!frames, G!LinkUp, G!LinkDown, G!Offers, G!Acknowledges,
                G!Refuses, G!client
  <2>2. \/ replies' = replies
        \/ \E s \in {"s1", "s3"}, type \in G!Types : replies' = replies \cup {G!Reply(type, s)}
    BY <1>1 DEF G!DhcpWorld, G!LinkUp, G!LinkDown, G!Offers, G!Acknowledges, G!Refuses, G!Types
  <2>3. GatewayNamed'
    BY <2>1, <2>2, GatewayStays, ServerAdds
  <2> QED
    BY <2>1, <2>3, FramesKeepDiag
<1>2. CASE G!Quit
  <2>1. /\ step = "idle"
        /\ UNCHANGED <<info, replies, wait, ping_ip, hop_pointer, dns_pointer, arp_target, arp_mac,
                       arp_ready, queries, replied, ping_reply, dns_reply, verdict, moved>>
    BY <1>2 DEF G!Quit, G!arp, G!frames, G!dhcpVars, G!client
  <2>2. wait = "none"
    BY <2>1 DEF DiagInv, DiagTypes, Kinds
  <2> QED
    BY <2>1, <2>2, GatewayStays, FramesKeepDiag
<1>3. CASE \E host \in G!Hosts : G!HostAnswers(host)
  <2>1. UNCHANGED <<info, replies, step, wait, ping_ip, hop_pointer, dns_pointer, arp_target, arp_mac,
                    arp_ready, queries, replied, ping_reply, dns_reply, verdict, moved>>
    BY <1>3 DEF G!HostAnswers, G!arp, G!dhcpVars, G!client
  <2> QED
    BY <2>1, GatewayStays, FramesKeepDiag
<1>4. CASE \E query \in queries : G!QueryAnswered(query)
  <2>1. /\ UNCHANGED <<info, replies, step, wait, ping_ip, hop_pointer, dns_pointer, arp_target, arp_mac,
                       arp_ready, queries, ping_reply, dns_reply, verdict, moved>>
        /\ replied \subseteq replied'
    BY <1>4 DEF G!QueryAnswered, G!arp, G!dhcpVars, G!client
  <2> QED
    BY <2>1, GatewayStays, FramesKeepDiag
<1> QED
  BY <1>1, <1>2, <1>3, <1>4

LEMMA DiagStep == ASSUME DiagInv, G!DiagNext PROVE DiagInv'
<1>1. CASE G!Obtains
  BY <1>1, ObtainsKeepsDiag
<1>2. CASE G!ping_host
  BY <1>2, PingKeepsDiag
<1>3. CASE G!dns_query
  BY <1>3, DnsKeepsDiag
<1>4. CASE G!ArpRetry
  BY <1>4, RetryKeepsDiag
<1>5. CASE G!Resolved
  BY <1>5, ResolvedKeepsDiag
<1>6. CASE G!ReplySeen \/ G!ReplyTimeout
  BY <1>6, ReplyKeepsDiag
<1>7. CASE \E r \in replies : G!DhcpFrame(r)
  BY <1>7, DhcpFrameKeepsDiag
<1>8. CASE \E host \in G!Hosts : G!parse_arp(host)
  BY <1>8, ArpFrameKeepsDiag
<1>9. CASE \E query \in queries : G!parse_ipv4_frame(query)
  BY <1>9, Ipv4FrameKeepsDiag
<1>10. CASE \/ G!Quit \/ G!DhcpWorld
            \/ \E host \in G!Hosts : G!HostAnswers(host)
            \/ \E query \in queries : G!QueryAnswered(query)
  BY <1>10, WorldKeepsDiag
<1> QED
  BY <1>1, <1>2, <1>3, <1>4, <1>5, <1>6, <1>7, <1>8, <1>9, <1>10 DEF G!DiagNext, G!Main

LEMMA AskStep == AskInv /\ [Next]_networkVars => AskInv'
<1> SUFFICES ASSUME AskInv, [Next]_networkVars PROVE AskInv'
  OBVIOUS
<1>1. CASE machine = "diagnostic" /\ G!DiagNext /\ machine' = machine
  BY <1>1, DiagStep DEF AskInv
<1>2. CASE machine # "diagnostic" /\ machine' = machine /\ UNCHANGED askVars
  BY <1>2 DEF AskInv, NothingAsked, askVars
<1>3. CASE UNCHANGED networkVars
  <2>1. /\ UNCHANGED <<machine, info, replies, step, wait, ping_ip, hop_pointer, dns_pointer,
                       arp_target, arp_mac, arp_ready, queries, replied, ping_reply, dns_reply,
                       verdict, moved>>
    BY <1>3 DEF networkVars, netVars, dhcpVars, client, arpVars, otherVars, askVars
  <2>2. DiagInv => DiagInv'
    BY <2>1, GatewayStays, FramesKeepDiag
  <2> QED
    BY <2>1, <2>2 DEF AskInv, NothingAsked
<1> QED
  BY <1>1, <1>2, <1>3 DEF Next, Join, Send, Diagnose, Scan, Client, otherVars

LEMMA AskInvImpliesRight == AskInv => QueriesGoRight
<1> SUFFICES ASSUME AskInv PROVE QueriesGoRight
  OBVIOUS
<1>1. CASE machine = "diagnostic"
  BY <1>1 DEF AskInv, DiagInv, QueriesRight, Right, RepliesAnswer, Answered, Kinds, Routers,
              QueriesGoRight, G!QueriesGoRight
<1>2. CASE machine # "diagnostic"
  <2>1. queries = {} /\ verdict["ping"] = "none" /\ verdict["dns"] = "none"
    BY <1>2 DEF AskInv, NothingAsked
  <2> QED
    BY <2>1 DEF QueriesGoRight, G!QueriesGoRight
<1> QED
  BY <1>1, <1>2

(***************************************************************************)
(* The network diagnostic sends its echo request and its DNS query under   *)
(* the hardware address of their next hop, whatever ARP answers come late, *)
(* twice or for the other request: while no DHCP reply has changed the     *)
(* addresses that arp_resolve reads again through its pointer.  A reply on *)
(* the screen answers a query that was sent.                               *)
(***************************************************************************)
THEOREM QueriesGoToHop == Spec => []QueriesGoRight
<1>1. Init => AskInv
  BY DiagStarts DEF Init, AskInv
<1>2. AskInv /\ [Next]_networkVars => AskInv'
  BY AskStep
<1>3. AskInv => QueriesGoRight
  BY AskInvImpliesRight
<1> QED
  BY <1>1, <1>2, <1>3, PTL DEF Spec

-----------------------------------------------------------------------------
(***************************************************************************)
(* Joins, ARP and sending by themselves (PicowDhcp and PicowNet), for      *)
(* every set of servers and hosts, every choice of addresses and routers,  *)
(* and every number of joins, attempts and ARP requests.                   *)
(***************************************************************************)

USE DhcpAssumption, NetAssumption

-----------------------------------------------------------------------------
(* The DHCP client.  What parse_dhcp has taken from the replies is tied to *)
(* the last reply that set g_dhcp_msg, and an acknowledgement on the       *)
(* network to a granted address.                                           *)

GrantInv == \A s \in Servers : Reply("ACK", s) \in replies => s \in leased

Discovering == pc \in {"offer", "ack"}
MsgInv ==
  /\ phase = "up" => pc = "idle" /\ info.ip # None
  /\ info.ip # None => \E s \in leased : info.ip = Address[s]
  /\ Discovering /\ dhcp_msg = "ACK" => OneConfiguration
  /\ Discovering /\ dhcp_msg = "OFFER" => RequestMatches

DhcpInv == DhcpTypeOK /\ GrantInv /\ MsgInv

LEMMA NoInfoType ==
  NoInfo \in [ip : Addresses \cup {None}, mask : Servers \cup {None},
              gateway : {Router[s] : s \in Servers} \cup {None},
              dns : Servers \cup {None}, dhcp_server : Servers \cup {None}]
  BY DEF NoInfo

\* The initial state satisfies the invariant.
LEMMA DhcpInitInv == DhcpInit => DhcpInv
<1> SUFFICES ASSUME DhcpInit PROVE DhcpInv
  OBVIOUS
<1>1. DhcpTypeOK
  <2>1. 0 \in 0 .. Attempts /\ 0 \in 0 .. Joins
    OBVIOUS
  <2> QED
    BY <2>1, NoInfoType DEF DhcpInit, DhcpTypeOK
<1>2. GrantInv /\ MsgInv
  BY DEF DhcpInit, GrantInv, MsgInv, Discovering, NoInfo
<1> QED
  BY <1>1, <1>2 DEF DhcpInv

\* Sending DISCOVER, for a first or a further attempt.
LEMMA RetryType ==
  ASSUME DhcpTypeOK, Retry
  PROVE  /\ pc' \in {"idle", "offer"} /\ phase' \in {phase, "failed"}
         /\ attempt' \in 0 .. Attempts /\ dhcp_msg' \in {dhcp_msg, None}
         /\ (pc' = "offer" => dhcp_msg' = None)
         /\ requests' \in {requests, requests \cup {Discover}}
  BY DEF DhcpTypeOK, Retry, Discovers

LEMMA DiscoverType ==
  Discover \in [type : {"DISCOVER", "REQUEST"}, ip : Addresses \cup {None},
                server : Servers \cup {None}]
  BY DEF Discover

\* Every step keeps every variable in its range.
LEMMA DhcpTypeStep == DhcpTypeOK /\ [DhcpNext]_dhcpVars => DhcpTypeOK'
<1> SUFFICES ASSUME DhcpTypeOK, [DhcpNext]_dhcpVars PROVE DhcpTypeOK'
  OBVIOUS
<1>1. CASE JoinStart
  <2>1. joins' \in 0 .. Joins
    BY <1>1 DEF JoinStart, DhcpTypeOK
  <2>2. info' \in [ip : Addresses \cup {None}, mask : Servers \cup {None},
                   gateway : {Router[s] : s \in Servers} \cup {None},
                   dns : Servers \cup {None}, dhcp_server : Servers \cup {None}]
    BY <1>1, NoInfoType DEF JoinStart
  <2> QED
    BY <1>1, <2>1, <2>2 DEF JoinStart, DhcpTypeOK
<1>2. CASE Waits
  <2>1. CASE JoinFails
    BY <2>1 DEF JoinFails, DhcpTypeOK, Addresses
  <2>2. CASE Joined
    BY <2>2, DiscoverType, NoInfoType DEF Joined, Discovers, DhcpTypeOK
  <2>3. CASE OfferSeen
    <3>1. Request \in [type : {"DISCOVER", "REQUEST"}, ip : Addresses \cup {None},
                       server : Servers \cup {None}]
      BY DEF DhcpTypeOK, Request
    <3> QED
      BY <2>3, <3>1 DEF OfferSeen, DhcpTypeOK, Addresses
  <2>4. CASE OfferTimeout
    BY <2>4, RetryType, DiscoverType DEF OfferTimeout, DhcpTypeOK, Addresses
  <2>5. CASE AckSeen
    BY <2>5 DEF AckSeen, DhcpTypeOK, Addresses
  <2>6. CASE AckTimeout
    BY <2>6, RetryType, DiscoverType DEF AckTimeout, DhcpTypeOK, Addresses
  <2> QED
    BY <1>2, <2>1, <2>2, <2>3, <2>4, <2>5, <2>6 DEF Waits
<1>3. CASE LinkUp \/ LinkDown
  BY <1>3 DEF LinkUp, LinkDown, DhcpTypeOK, Addresses
<1>4. ASSUME NEW r \in replies, parse_dhcp(r) PROVE DhcpTypeOK'
  <2>1. r \in [type : Types, server : Servers]
    BY DEF DhcpTypeOK
  <2>2. /\ IpAfter(r) \in Addresses \cup {None}
        /\ OfferAfter(r) \in Addresses \cup {None}
        /\ GatewayAfter(r) \in {Router[s] : s \in Servers} \cup {None}
    BY <2>1 DEF IpAfter, OfferAfter, GatewayAfter, DhcpTypeOK, Addresses
  <2>3. info' \in [ip : Addresses \cup {None}, mask : Servers \cup {None},
                   gateway : {Router[s] : s \in Servers} \cup {None},
                   dns : Servers \cup {None}, dhcp_server : Servers \cup {None}]
    BY <1>4, <2>1, <2>2 DEF parse_dhcp, DhcpTypeOK
  <2>4. dhcp_msg' \in {"OFFER", "ACK", None} /\ refused' \in BOOLEAN
    BY <1>4, <2>1 DEF parse_dhcp, DhcpTypeOK, Types
  <2> QED
    BY <1>4, <2>2, <2>3, <2>4 DEF parse_dhcp, DhcpTypeOK, Addresses
<1>5. ASSUME NEW s \in Servers, Offers(s) \/ Acknowledges(s) \/ Refuses(s)
      PROVE  DhcpTypeOK'
  <2>1. \A type \in Types : Reply(type, s) \in [type : Types, server : Servers]
    BY DEF Reply
  <2> QED
    BY <1>5, <2>1 DEF Offers, Acknowledges, Refuses, client, DhcpTypeOK, Addresses,
       Types
<1>6. CASE UNCHANGED dhcpVars
  BY <1>6 DEF dhcpVars, client, DhcpTypeOK, Addresses
<1> QED
  BY <1>1, <1>2, <1>3, <1>4, <1>5, <1>6 DEF DhcpNext

\* Only a server that acknowledges puts its ACK on the network.
LEMMA GrantStep == GrantInv /\ [DhcpNext]_dhcpVars => GrantInv'
<1> SUFFICES ASSUME GrantInv, [DhcpNext]_dhcpVars PROVE GrantInv'
  OBVIOUS
<1>1. CASE UNCHANGED <<replies, leased>>
  BY <1>1 DEF GrantInv, Reply
<1>2. ASSUME NEW s \in Servers, Offers(s) \/ Acknowledges(s) \/ Refuses(s)
      PROVE  GrantInv'
  BY <1>2 DEF Offers, Acknowledges, Refuses, GrantInv, Reply
<1> QED
  BY <1>1, <1>2 DEF DhcpNext, JoinStart, Waits, JoinFails, Joined, OfferSeen,
     OfferTimeout, AckSeen, AckTimeout, LinkUp, LinkDown, parse_dhcp, dhcpVars,
     client

\* A reply handled ties the configuration to the server that sent it.
LEMMA ParseStep ==
  ASSUME DhcpInv, NEW r \in replies, parse_dhcp(r)
  PROVE  MsgInv'
<1>1. r \in [type : Types, server : Servers] /\ r = Reply(r.type, r.server)
  BY DEF DhcpInv, DhcpTypeOK, Reply
<1>2. r.type = "ACK" => r.server \in leased
  BY <1>1, Zenon DEF DhcpInv, GrantInv
<1> DEFINE s == r.server
<1>3. /\ info'.ip = IpAfter(r) /\ info'.gateway = GatewayAfter(r)
      /\ info'.dhcp_server = s
      /\ r.type # "NAK" => info'.mask = s /\ info'.dns = s
      /\ r.type = "NAK" => info'.mask = info.mask /\ info'.dns = info.dns
  BY DEF parse_dhcp
<1>4. /\ leased' = leased /\ phase' = phase /\ pc' = pc /\ replies' = replies
      /\ refused' = (r.type = "NAK")
      /\ dhcp_msg' = IF r.type # "NAK" THEN r.type ELSE dhcp_msg
      /\ offer_ip' = OfferAfter(r)
  BY DEF parse_dhcp
<1>5. s \in Servers /\ Address[s] # None
  BY <1>1
<1>6. CASE r.type = "ACK"
  <2>1. info'.ip = Address[s] /\ s \in leased'
    BY <1>2, <1>3, <1>4, <1>6 DEF IpAfter
  <2>2. OneConfiguration'
    <3>1. Router[s] # None => info'.gateway = Router[s]
      BY <1>3, <1>6 DEF GatewayAfter
    <3> QED
      BY <2>1, <3>1, <1>3, <1>6 DEF OneConfiguration, ConfigOf
  <2>3. dhcp_msg' = "ACK"
    BY <1>4, <1>6
  <2>4. (phase = "up" => pc = "idle")
    BY DEF DhcpInv, MsgInv
  <2> QED
    BY <2>1, <2>2, <2>3, <2>4, <1>4, <1>5 DEF MsgInv
<1>7. CASE r.type = "OFFER"
  <2>1. info'.ip = info.ip
    BY <1>3, <1>7 DEF IpAfter
  <2>2. dhcp_msg' = "OFFER"
    BY <1>4, <1>7
  <2>3. Request'.ip = Address[s] /\ Request'.server = s
    BY <1>3, <1>4, <1>7 DEF Request, OfferAfter
  <2>4. Reply("OFFER", s)' \in replies'
    BY <1>1, <1>4, <1>7 DEF Reply
  <2> QED
    BY <2>1, <2>2, <2>3, <2>4, <1>4, <1>5 DEF DhcpInv, MsgInv, RequestMatches
<1>8. CASE r.type = "NAK"
  <2>1. info'.ip = info.ip /\ info'.gateway = info.gateway /\ dhcp_msg' = dhcp_msg
    BY <1>3, <1>4, <1>8 DEF IpAfter, GatewayAfter
  <2>2. refused'
    BY <1>4, <1>8
  <2>3. OneConfiguration => OneConfiguration'
    BY <2>1, <2>2, <1>3, <1>4, <1>8 DEF OneConfiguration, ConfigOf
  <2> QED
    BY <2>1, <2>2, <2>3, <1>4 DEF DhcpInv, MsgInv, Discovering, RequestMatches
<1> QED
  BY <1>1, <1>6, <1>7, <1>8 DEF Types

LEMMA MsgStep == DhcpInv /\ [DhcpNext]_dhcpVars => MsgInv'
<1> SUFFICES ASSUME DhcpInv, [DhcpNext]_dhcpVars PROVE MsgInv'
  OBVIOUS
<1>1. CASE JoinStart
  BY <1>1 DEF JoinStart, DhcpInv, MsgInv, NoInfo, Discovering
<1>2. CASE JoinFails
  BY <1>2 DEF JoinFails, DhcpInv, MsgInv, Discovering
<1>3. CASE Joined
  BY <1>3 DEF Joined, Discovers, DhcpInv, MsgInv, NoInfo, Discovering
<1>4. CASE OfferSeen
  BY <1>4 DEF OfferSeen, DhcpInv, MsgInv, Discovering
<1>5. CASE OfferTimeout \/ AckTimeout
  <2>1. /\ pc \in {"offer", "ack"} /\ info' = info /\ leased' = leased
        /\ phase' \in {phase, "failed"} /\ pc' \in {"idle", "offer"}
        /\ (pc' = "offer" => dhcp_msg' = None)
    BY <1>5, RetryType DEF OfferTimeout, AckTimeout, DhcpInv
  <2> QED
    BY <2>1 DEF DhcpInv, MsgInv, Discovering
<1>6. CASE AckSeen
  <2>1. info.ip # None
    BY <1>6 DEF AckSeen, DhcpInv, MsgInv, Discovering, OneConfiguration, ConfigOf,
       DhcpTypeOK
  <2> QED
    BY <1>6, <2>1 DEF AckSeen, DhcpInv, MsgInv, Discovering
<1>7. CASE LinkUp \/ LinkDown
  BY <1>7 DEF LinkUp, LinkDown, DhcpInv, MsgInv, Discovering, RequestMatches,
     Request, Reply, OneConfiguration, ConfigOf
<1>8. ASSUME NEW r \in replies, parse_dhcp(r) PROVE MsgInv'
  BY <1>8, ParseStep
<1>9. ASSUME NEW s \in Servers, Offers(s) \/ Acknowledges(s) \/ Refuses(s)
      PROVE  MsgInv'
  <2>1. /\ UNCHANGED client /\ leased \subseteq leased' /\ replies \subseteq replies'
    BY <1>9 DEF Offers, Acknowledges, Refuses
  <2> QED
    BY <2>1 DEF client, DhcpInv, MsgInv, Discovering, RequestMatches, Request, Reply,
       OneConfiguration, ConfigOf
<1>10. CASE UNCHANGED dhcpVars
  BY <1>10 DEF dhcpVars, client, DhcpInv, MsgInv, Discovering, RequestMatches, Request, Reply,
     OneConfiguration, ConfigOf
<1> QED
  BY <1>1, <1>2, <1>3, <1>4, <1>5, <1>6, <1>7, <1>8, <1>9, <1>10
     DEF DhcpNext, Waits

LEMMA DhcpStep == DhcpInv /\ [DhcpNext]_dhcpVars => DhcpInv'
  BY DhcpTypeStep, GrantStep, MsgStep DEF DhcpInv

\* DhcpInv holds in every reachable state.
THEOREM DhcpInvariance == DhcpSpec => []DhcpInv
<1> QED
  BY DhcpInitInv, DhcpStep, PTL DEF DhcpSpec

\* The variables of the DHCP client keep to their ranges.
THEOREM DhcpTypeCorrect == DhcpSpec => []DhcpTypeOK
<1>1. DhcpInv => DhcpTypeOK
  BY DEF DhcpInv
<1> QED
  BY DhcpInvariance, <1>1, PTL

\* However replies are delayed, repeated or reordered, the client only uses an
\* address that a server has granted, and a successful join has one.
THEOREM OnlyLeased == DhcpSpec => []LeasedAddress
<1>1. DhcpInv => LeasedAddress
  BY DEF DhcpInv, MsgInv, LeasedAddress
<1> QED
  BY DhcpInvariance, <1>1, PTL

\* A REQUEST names an address and the server that offered it, unless the last
\* reply handled was a refusal.
THEOREM RequestsMatch == DhcpSpec => RequestsWhatWasOffered
<1>1. DhcpInv /\ [DhcpNext]_dhcpVars => [OfferSeen => RequestMatches]_dhcpVars
  BY DEF DhcpInv, MsgInv, OfferSeen, Discovering
<1> QED
  BY DhcpInvariance, <1>1, PTL DEF DhcpSpec, RequestsWhatWasOffered

\* A successful join hands out the configuration of one server.
THEOREM OneConfigurationAtJoin == DhcpSpec => JoinsWithOneConfiguration
<1>1. DhcpInv /\ [DhcpNext]_dhcpVars => [AckSeen => OneConfiguration]_dhcpVars
  BY DEF DhcpInv, MsgInv, AckSeen, Discovering
<1> QED
  BY DhcpInvariance, <1>1, PTL DEF DhcpSpec, JoinsWithOneConfiguration

-----------------------------------------------------------------------------
(* Sending.  An answer belongs to the address asked for, and the address    *)
(* the waiting call points at is still the one it asked for, unless the     *)
(* gateway has been replaced meanwhile.                                     *)

AnswerInv == arp_ready => arp_mac = arp_target
CallInv == call.kind # "none" =>
             /\ pc = "idle" /\ phase = "up" /\ arp_target = call.hop
             /\ moved \/ Hop = call.hop
HopInv == AnswerInv /\ CallInv /\ RightHop /\ CacheHonest

\* Seen through its own variables, the DHCP client behaves as on its own: the
\* calls that resolve an address change nothing of it.
LEMMA StepsOfDhcp == [NetNext]_netVars => [DhcpNext]_dhcpVars
  BY DEF NetNext, netVars, NetJoin, NetDhcpReply, NetDhcpOther, DhcpNext,
     SendCached, ResolveStart, ResolveRetry, Resolved, parse_arp, Answers

THEOREM NetIsDhcp == NetSpec => DhcpSpec
<1>1. NetInit => DhcpInit
  BY DEF NetInit
<1> QED
  BY <1>1, StepsOfDhcp, PTL DEF NetSpec, DhcpSpec

Calls == [kind : {"none", "udp", "tcp"}, dst : Dests \cup {None}, via : BOOLEAN,
          hop : Hosts \cup {None}, tries : 0 .. Tries]
LEMMA NoCallType == NoCall \in Calls
<1>1. 0 \in 0 .. Tries
  OBVIOUS
<1> QED
  BY <1>1 DEF NoCall, Calls

\* The variables of the sending side keep to their ranges.
ArpTypeOK ==
  /\ arp_target \in Hosts \cup {None} /\ arp_mac \in Hosts \cup {None}
  /\ arp_ready \in BOOLEAN /\ moved \in BOOLEAN
  /\ cache \in [valid : BOOLEAN, ip : Hosts \cup {None}, mac : Hosts \cup {None}]
  /\ call \in Calls
  /\ out \in [hop : Hosts \cup {None}, mac : Hosts \cup {None}]
  /\ asked \subseteq Hosts \cup {None} /\ answers \subseteq Hosts

LEMMA HopType ==
  ASSUME DhcpTypeOK, NEW via \in BOOLEAN, NEW dst \in Dests \cup {None}
  PROVE  HopFor(via, dst) \in Hosts \cup {None}
  BY DEF DhcpTypeOK, HopFor, Hosts

LEMMA ArpTypeStep ==
  DhcpTypeOK /\ ArpTypeOK /\ [NetNext]_netVars => ArpTypeOK'
<1> SUFFICES ASSUME DhcpTypeOK, ArpTypeOK, [NetNext]_netVars PROVE ArpTypeOK'
  OBVIOUS
<1>1. CASE NetJoin
  BY <1>1 DEF NetJoin, NoFrame, ArpTypeOK
<1>2. CASE NetDhcpOther \/ UNCHANGED netVars
  BY <1>2 DEF NetDhcpOther, netVars, arpVars, ArpTypeOK
<1>3. ASSUME NEW r \in replies, NetDhcpReply(r) PROVE ArpTypeOK'
  <2>1. Moves(r) \in BOOLEAN
    BY DEF Moves, ArpTypeOK, Calls
  <2> QED
    BY <1>3, <2>1 DEF NetDhcpReply, ArpTypeOK
<1>4. ASSUME NEW dst \in Dests, SendCached(dst) PROVE ArpTypeOK'
  <2>1. ViaGateway(dst) \in BOOLEAN
    BY DEF ViaGateway
  <2> QED
    BY <1>4, <2>1, HopType DEF SendCached, ArpTypeOK
<1>5. ASSUME NEW kind \in {"udp", "tcp"}, NEW dst \in Dests, ResolveStart(kind, dst)
      PROVE  ArpTypeOK'
  <2>1. ViaGateway(dst) \in BOOLEAN
    BY DEF ViaGateway
  <2>2. HopFor(ViaGateway(dst), dst) \in Hosts \cup {None}
    BY <2>1, HopType
  <2>3. 1 \in 0 .. Tries
    OBVIOUS
  <2> QED
    BY <1>5, <2>1, <2>2, <2>3 DEF ResolveStart, ArpTypeOK, Calls
<1>6. CASE ResolveRetry
  <2>1. Hop \in Hosts \cup {None}
    BY HopType DEF ArpTypeOK, Calls, Hop
  <2>2. call.tries < Tries => call.tries + 1 \in 0 .. Tries
    BY DEF ArpTypeOK, Calls
  <2>3. call' \in Calls
    <3>1. CASE call.tries < Tries /\ call' = [call EXCEPT !.tries = @ + 1]
      BY <3>1, <2>2 DEF ArpTypeOK, Calls
    <3>2. CASE call' = NoCall
      BY <3>2, NoCallType
    <3> QED
      BY <1>6, <3>1, <3>2 DEF ResolveRetry
  <2> QED
    BY <1>6, <2>1, <2>3 DEF ResolveRetry, ArpTypeOK
<1>7. CASE Resolved
  <2>1. Hop \in Hosts \cup {None}
    BY HopType DEF ArpTypeOK, Calls, Hop
  <2> QED
    <3>1. call.hop \in Hosts \cup {None}
      BY DEF ArpTypeOK, Calls
    <3>2. out' \in [hop : Hosts \cup {None}, mac : Hosts \cup {None}]
      BY <1>7, <3>1 DEF Resolved, ArpTypeOK
    <3>3. cache' \in [valid : BOOLEAN, ip : Hosts \cup {None},
                      mac : Hosts \cup {None}]
      BY <1>7, <2>1 DEF Resolved, ArpTypeOK
    <3>4. call' \in Calls
      BY <1>7, NoCallType DEF Resolved
    <3> QED
      BY <1>7, <3>2, <3>3, <3>4 DEF Resolved, ArpTypeOK
<1>8. ASSUME NEW h \in Hosts, parse_arp(h) \/ Answers(h) PROVE ArpTypeOK'
  BY <1>8 DEF parse_arp, Answers, ArpTypeOK
<1> QED
  BY <1>1, <1>2, <1>3, <1>4, <1>5, <1>6, <1>7, <1>8 DEF NetNext

\* Every variable of the composed client keeps to its range.
THEOREM NetTypeCorrect == NetSpec => []NetTypeOK
<1>1. NetInit => ArpTypeOK
  <2> SUFFICES ASSUME NetInit PROVE ArpTypeOK
    OBVIOUS
  <2>1. call \in Calls
    BY NoCallType DEF NetInit
  <2>2. /\ out \in [hop : Hosts \cup {None}, mac : Hosts \cup {None}]
        /\ cache \in [valid : BOOLEAN, ip : Hosts \cup {None},
                      mac : Hosts \cup {None}]
    BY DEF NetInit, NoCache, NoFrame
  <2> QED
    BY <2>1, <2>2 DEF NetInit, ArpTypeOK
<1>2. DhcpTypeOK /\ ArpTypeOK => NetTypeOK
  BY DEF ArpTypeOK, NetTypeOK, Calls
<1> QED
  BY <1>1, <1>2, ArpTypeStep, NetIsDhcp, DhcpTypeCorrect, PTL DEF NetSpec

LEMMA HopInitInv == NetInit => HopInv
  BY DEF NetInit, HopInv, AnswerInv, CallInv, RightHop, CacheHonest, NoCall,
     NoFrame, NoCache

\* While a call waits, the address it points at changes only with the gateway.
LEMMA DhcpOtherStep ==
  ASSUME HopInv, NetDhcpOther
  PROVE  HopInv'
<1>1. UNCHANGED arpVars
  BY DEF NetDhcpOther
<1>2. call.kind # "none" => UNCHANGED <<pc, phase, info>>
  <2> SUFFICES ASSUME call.kind # "none" PROVE UNCHANGED <<pc, phase, info>>
    OBVIOUS
  <2>1. pc = "idle"
    BY DEF HopInv, CallInv
  <2> QED
    BY <2>1 DEF NetDhcpOther, Waits, JoinFails, Joined, OfferSeen, OfferTimeout,
       AckSeen, AckTimeout, LinkUp, LinkDown, Offers, Acknowledges, Refuses, client
<1> QED
  BY <1>1, <1>2 DEF arpVars, HopInv, AnswerInv, CallInv, RightHop, CacheHonest,
     Hop, HopFor

LEMMA DhcpReplyStep ==
  ASSUME HopInv, NEW r \in replies, NetDhcpReply(r)
  PROVE  HopInv'
<1>1. /\ UNCHANGED <<arp_target, arp_mac, arp_ready, cache, call, out, pc, phase>>
      /\ moved' = (moved \/ Moves(r))
      /\ info'.gateway = GatewayAfter(r)
  BY DEF NetDhcpReply, parse_dhcp
<1>2. AnswerInv' /\ RightHop' /\ CacheHonest'
  BY <1>1 DEF HopInv, AnswerInv, RightHop, CacheHonest
<1>3. CallInv'
  <2> SUFFICES ASSUME call.kind # "none", ~moved' PROVE Hop' = Hop
    BY <1>1 DEF HopInv, CallInv
  <2>1. call.via => info'.gateway = info.gateway
    BY <1>1 DEF Moves
  <2> QED
    BY <1>1, <2>1 DEF Hop, HopFor
<1> QED
  BY <1>2, <1>3 DEF HopInv

\* Every step keeps the pairs of next hop and hardware address right.
LEMMA HopStep == NetTypeOK /\ HopInv /\ [NetNext]_netVars => HopInv'
<1> SUFFICES ASSUME NetTypeOK, HopInv, [NetNext]_netVars PROVE HopInv'
  OBVIOUS
<1>1. CASE NetJoin
  BY <1>1 DEF NetJoin, NoFrame, HopInv, AnswerInv, CallInv, RightHop, CacheHonest
<1>2. CASE NetDhcpOther
  BY <1>2, DhcpOtherStep
<1>3. ASSUME NEW r \in replies, NetDhcpReply(r) PROVE HopInv'
  BY <1>3, DhcpReplyStep
<1>4. ASSUME NEW dst \in Dests, SendCached(dst) PROVE HopInv'
  BY <1>4 DEF SendCached, Cached, dhcpVars, client, HopInv, AnswerInv, CallInv,
     RightHop, CacheHonest, Hop, HopFor
<1>5. ASSUME NEW kind \in {"udp", "tcp"}, NEW dst \in Dests, ResolveStart(kind, dst)
      PROVE  HopInv'
  BY <1>5 DEF ResolveStart, Idle, dhcpVars, client, HopInv, AnswerInv, CallInv,
     RightHop, CacheHonest, Hop, HopFor
<1>6. CASE ResolveRetry
  <2>1. call' = NoCall \/ UNCHANGED <<call.kind, call.via, call.dst, call.hop>>
    BY <1>6 DEF ResolveRetry, NetTypeOK
  <2> QED
    BY <1>6, <2>1 DEF ResolveRetry, NoCall, dhcpVars, client, HopInv, AnswerInv,
       CallInv, RightHop, CacheHonest, Hop, HopFor
<1>7. CASE Resolved
  BY <1>7 DEF Resolved, NoCall, dhcpVars, client, HopInv, AnswerInv, CallInv,
     RightHop, CacheHonest, Hop, HopFor
<1>8. ASSUME NEW h \in Hosts, parse_arp(h) \/ Answers(h) PROVE HopInv'
  BY <1>8 DEF parse_arp, ForTarget, Answers, dhcpVars, client, HopInv, AnswerInv,
     CallInv, RightHop, CacheHonest, Hop, HopFor
<1>9. CASE UNCHANGED netVars
  BY <1>9 DEF netVars, arpVars, dhcpVars, client, HopInv, AnswerInv, CallInv,
     RightHop, CacheHonest, Hop, HopFor
<1> QED
  BY <1>1, <1>2, <1>3, <1>4, <1>5, <1>6, <1>7, <1>8, <1>9 DEF NetNext

THEOREM HopInvariance == NetSpec => []HopInv
<1> QED
  BY HopInitInv, HopStep, NetTypeCorrect, PTL DEF NetSpec

\* Frames go to the hardware address of their next hop, unless a DHCP reply
\* replaced the gateway while it was being resolved.
THEOREM HopCorrect == NetSpec => []RightHop
<1>1. HopInv => RightHop
  BY DEF HopInv
<1> QED
  BY HopInvariance, <1>1, PTL

\* The next-hop cache never pairs an address with another's hardware address,
\* with the same exception.
THEOREM CacheCorrect == NetSpec => []CacheHonest
<1>1. HopInv => CacheHonest
  BY DEF HopInv
<1> QED
  BY HopInvariance, <1>1, PTL

-----------------------------------------------------------------------------
(* Where every DHCP server that names a router names the same one, the      *)
(* exception never occurs.                                                  *)

OneRouter == \A s, t \in Servers : \/ Router[s] = None \/ Router[t] = None
                                   \/ Router[s] = Router[t]
GatewayInv ==
  /\ ~moved
  /\ replies \subseteq [type : Types, server : Servers]
  /\ info.gateway # None => \E s \in Servers : info.gateway = Router[s]
  /\ call.kind # "none" =>
       /\ pc = "idle"
       /\ call.via => info.gateway # None

LEMMA GatewayInitInv == NetInit => GatewayInv
  BY DEF NetInit, DhcpInit, GatewayInv, NoInfo, NoCall

LEMMA GatewayStep ==
  ASSUME OneRouter
  PROVE  NetTypeOK /\ GatewayInv /\ [NetNext]_netVars => GatewayInv'
<1> SUFFICES ASSUME NetTypeOK, GatewayInv, [NetNext]_netVars PROVE GatewayInv'
  OBVIOUS
<1>1. CASE NetJoin
  BY <1>1 DEF NetJoin, JoinStart, NoInfo, GatewayInv
<1>2. CASE NetDhcpOther
  <2>1. UNCHANGED arpVars
    BY <1>2 DEF NetDhcpOther
  <2>2. CASE Joined
    BY <2>1, <2>2 DEF Joined, NoInfo, arpVars, GatewayInv
  <2>3. CASE /\ Waits \/ LinkUp \/ LinkDown
             /\ ~Joined
    <3>1. /\ UNCHANGED <<info, replies>>
          /\ pc = "idle" => pc' = "idle"
      BY <2>3 DEF Waits, JoinFails, OfferSeen, OfferTimeout, AckSeen, AckTimeout,
         LinkUp, LinkDown
    <3> QED
      BY <2>1, <3>1 DEF arpVars, GatewayInv
  <2>4. ASSUME NEW s \in Servers, Offers(s) \/ Acknowledges(s) \/ Refuses(s)
        PROVE  GatewayInv'
    <3>1. \A type \in Types : Reply(type, s) \in [type : Types, server : Servers]
      BY DEF Reply
    <3> QED
      BY <2>1, <2>4, <3>1 DEF Offers, Acknowledges, Refuses, client, arpVars,
         GatewayInv, Types
  <2> QED
    BY <1>2, <2>2, <2>3, <2>4 DEF NetDhcpOther
<1>3. ASSUME NEW r \in replies, NetDhcpReply(r) PROVE GatewayInv'
  <2>1. r.server \in Servers
    BY DEF GatewayInv
  <2>2. /\ info'.gateway = GatewayAfter(r) /\ moved' = (moved \/ Moves(r))
        /\ UNCHANGED <<call, replies, pc>>
    BY <1>3 DEF NetDhcpReply, parse_dhcp
  <2>3. info.gateway # None => GatewayAfter(r) = info.gateway
    BY <2>1 DEF GatewayAfter, GatewayInv, OneRouter
  <2>4. ~Moves(r)
    BY <2>3 DEF Moves, GatewayInv
  <2>5. GatewayAfter(r) # None => \E s \in Servers : GatewayAfter(r) = Router[s]
    BY <2>1 DEF GatewayAfter, GatewayInv
  <2> QED
    BY <2>2, <2>3, <2>4, <2>5 DEF GatewayInv
<1>4. ASSUME NEW dst \in Dests, SendCached(dst) PROVE GatewayInv'
  BY <1>4 DEF SendCached, dhcpVars, client, GatewayInv
<1>5. ASSUME NEW kind \in {"udp", "tcp"}, NEW dst \in Dests, ResolveStart(kind, dst)
      PROVE  GatewayInv'
  BY <1>5 DEF ResolveStart, Idle, ViaGateway, dhcpVars, client, GatewayInv
<1>6. CASE ResolveRetry \/ Resolved
  <2>1. call' = NoCall \/ UNCHANGED <<call.kind, call.via>>
    BY <1>6 DEF ResolveRetry, Resolved, NetTypeOK
  <2> QED
    BY <1>6, <2>1 DEF ResolveRetry, Resolved, NoCall, dhcpVars, client, GatewayInv
<1>7. ASSUME NEW h \in Hosts, parse_arp(h) \/ Answers(h) PROVE GatewayInv'
  BY <1>7 DEF parse_arp, Answers, dhcpVars, client, GatewayInv
<1>8. CASE UNCHANGED netVars
  BY <1>8 DEF netVars, arpVars, dhcpVars, client, GatewayInv
<1> QED
  BY <1>1, <1>2, <1>3, <1>4, <1>5, <1>6, <1>7, <1>8 DEF NetNext

\* In a network with one router every frame goes to the hardware address of
\* its next hop, whatever the DHCP servers send and when.
THEOREM HopCorrectOneRouter ==
  ASSUME OneRouter
  PROVE  NetSpec => [](out.mac = out.hop)
<1>1. NetTypeOK /\ GatewayInv /\ [NetNext]_netVars => GatewayInv'
  BY GatewayStep
<1>2. GatewayInv /\ RightHop => out.mac = out.hop
  BY DEF GatewayInv, RightHop
<1> QED
  BY GatewayInitInv, <1>1, <1>2, HopCorrect, NetTypeCorrect, PTL DEF NetSpec
=============================================================================
