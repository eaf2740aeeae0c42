------------------------- MODULE KeyInsertion_proofs -------------------------
(***************************************************************************)
(* Proofs about the key-insertion generator and the script it writes.      *)
(* The argument for CompleteImpliesAllKeys: the footer is only ever        *)
(* written after the whole call list of the list that was read, and the  *)
(* script, under set -e, only passes a line once its insert_key succeeded, *)
(* so when the footer runs every call of the file is in the keystore.     *)
(***************************************************************************)
EXTENDS KeyInsertion, SequenceTheorems, TLAPS

\* The file insert-all-beta-keys.sh before the generator writes it.
NoFile == [calls |-> <<>>, footer |-> FALSE]

\* Nothing is written or run before the generator has exited.
GenFirst ==
  /\ gPc # "exited" => file = NoFile /\ sPc = "idle"
  /\ sPc = "idle" => sLine = 1 /\ inserted = {}

\* A file with its footer holds the whole call list of the list read.
FooterWhole == file.footer => file.calls = Calls

\* The script has passed exactly the lines whose insert_key succeeded.
Progress ==
  /\ sLine <= Len(file.calls) + 1
  /\ \A n \in 1..(sLine - 1) :
       <<file.calls[n].port, file.calls[n].key, file.calls[n].val>> \in inserted

\* "Key insertion complete!" is printed only after the last line.
Completed ==
  complete => sPc = "exited" /\ file.footer /\ sLine = Len(file.calls) + 1

KeyInv == TypeOK /\ GenFirst /\ FooterWhole /\ Progress /\ Completed

(***************************************************************************)
(* The call list.                                                          *)
(***************************************************************************)
\* validators[:8] is a list of validator entries.
LEMMA UsedSeq ==
  ASSUME beta \in Seq(Validator)
  PROVE  /\ Used \in Seq(Validator)
         /\ Len(Used) = IF Len(beta) < MaxUse THEN Len(beta) ELSE MaxUse
<1> DEFINE m == IF Len(beta) < MaxUse THEN Len(beta) ELSE MaxUse
<1>1. m \in Nat /\ m <= Len(beta)
  BY KeyAssumption
<1>2. \A i \in 1..m : beta[i] \in Validator
  BY <1>1, ElementOfSeq
<1> QED
  BY <1>1, <1>2, SubSeqProperties DEF Used

\* The call list has six calls per used validator, and the call of key j
\* of validator i, at position (i - 1) * 6 + j, goes to port BasePort + i.
LEMMA CallsShape ==
  ASSUME beta \in Seq(Validator)
  PROVE  /\ Calls \in Seq(Call)
         /\ Len(Calls) = Len(Used) * 6
         /\ \A i \in 1..Len(Used), j \in 1..6 :
              Calls[(i - 1) * 6 + j] =
                [port |-> BasePort + i, key |-> KeyOrder[j], val |-> Used[i]]
<1>1. Used \in Seq(Validator) /\ Len(Used) \in Nat
  BY UsedSeq
<1>2. Len(KeyOrder) = 6
  BY DEF KeyOrder
<1>3. ASSUME NEW n \in 1..Len(Used) * 6
      PROVE  /\ (n - 1) \div 6 + 1 \in 1..Len(Used)
             /\ ((n - 1) % 6) + 1 \in 1..6
  BY <1>1
<1>4. \A n \in 1..Len(Used) * 6 :
        Calls[n] = [port |-> BasePort + ((n - 1) \div 6 + 1),
                    key |-> KeyOrder[((n - 1) % 6) + 1],
                    val |-> Used[(n - 1) \div 6 + 1]]
  BY <1>2 DEF Calls
<1>5. Calls \in [1..Len(Used) * 6 -> Call]
  <2>1. \A j \in 1..6 : KeyOrder[j] \in KeyTypes
    BY <1>2 DEF KeyTypes
  <2>2. \A i \in 1..Len(Used) : Used[i] \in Validator
    BY <1>1, ElementOfSeq
  <2>3. BasePort \in Nat
    BY KeyAssumption
  <2>4. ASSUME NEW n \in 1..Len(Used) * 6 PROVE Calls[n] \in Call
    <3> DEFINE i == (n - 1) \div 6 + 1
               j == ((n - 1) % 6) + 1
    <3>1. i \in 1..Len(Used) /\ j \in 1..6
      BY <1>3
    <3>2. BasePort + i \in Nat /\ KeyOrder[j] \in KeyTypes /\ Used[i] \in Validator
      BY <3>1, <2>1, <2>2, <2>3
    <3>3. Calls[n] = [port |-> BasePort + i, key |-> KeyOrder[j], val |-> Used[i]]
      BY <1>4
    <3> QED
      BY <3>2, <3>3 DEF Call
  <2>5. Calls = [n \in 1..Len(Used) * 6 |-> Calls[n]]
    BY <1>2 DEF Calls
  <2> QED
    BY <2>4, <2>5, Zenon
<1>6. Calls \in Seq(Call) /\ Len(Calls) = Len(Used) * 6
  BY <1>1, <1>5, LenProperties, SeqDef
<1>7. ASSUME NEW i \in 1..Len(Used), NEW j \in 1..6
      PROVE  Calls[(i - 1) * 6 + j] =
               [port |-> BasePort + i, key |-> KeyOrder[j], val |-> Used[i]]
  <2> DEFINE n == (i - 1) * 6 + j
  <2>1. n \in 1..Len(Used) * 6
    BY <1>1
  <2>2. (n - 1) \div 6 + 1 = i /\ ((n - 1) % 6) + 1 = j
    BY <1>1
  <2> QED
    BY <1>4, <2>1, <2>2
<1> QED
  BY <1>6, <1>7

(***************************************************************************)
(* The inductive invariant.                                                *)
(***************************************************************************)
LEMMA KeyInvInit == Init => KeyInv
<1> SUFFICES ASSUME Init PROVE KeyInv
  OBVIOUS
<1>1. <<>> \in Seq(Validator) /\ <<>> \in Seq(Call) /\ Len(<<>>) = 0
  BY EmptySeq
<1>2. TypeOK
  <2>1. file \in [calls : Seq(Call), footer : BOOLEAN]
    BY <1>1 DEF Init
  <2>2. complete \in BOOLEAN /\ inserted \subseteq Nat \X KeyTypes \X Validator
    BY DEF Init
  <2> QED
    BY <1>1, <2>1, <2>2 DEF Init, TypeOK
<1>3. GenFirst /\ FooterWhole /\ Completed
  BY DEF Init, GenFirst, NoFile, FooterWhole, Completed
<1>4. Progress
  BY <1>1 DEF Init, Progress
<1> QED
  BY <1>2, <1>3, <1>4 DEF KeyInv

\* The call list depends on nothing but the list read.
LEMMA CallsUnchanged == beta' = beta => Calls' = Calls
BY DEF Calls, Used

LEMMA KeyInvStep == KeyInv /\ [Next]_vars => KeyInv'
<1> SUFFICES ASSUME KeyInv, [Next]_vars PROVE KeyInv'
  OBVIOUS
<1>0. /\ TypeOK /\ GenFirst /\ FooterWhole /\ Progress /\ Completed
      /\ Len(file.calls) \in Nat
  BY LenProperties DEF KeyInv, TypeOK
<1>1. CASE GenRead
  <2>1. PICK b \in BetaLists \cup {beta} : beta' = b
    BY <1>1 DEF GenRead
  <2>2. beta' \in Seq(Validator)
    BY <1>0, <2>1, KeyAssumption DEF TypeOK
  <2>3. file = NoFile /\ sPc = "idle" /\ sLine = 1 /\ inserted = {}
    BY <1>0, <1>1 DEF GenRead, GenFirst
  <2>4. TypeOK'
    BY <1>0, <1>1, <2>2 DEF GenRead, TypeOK
  <2>5. GenFirst' /\ FooterWhole' /\ Completed'
    BY <1>0, <1>1, <2>3 DEF GenRead, GenFirst, FooterWhole, Completed, NoFile
  <2>6. Progress'
    BY <1>0, <1>1, <2>3 DEF GenRead, Progress, NoFile
  <2> QED
    BY <2>4, <2>5, <2>6 DEF KeyInv
<1>2. CASE GenGenerate
  <2>1. UNCHANGED <<beta, file, sPc, sLine, inserted, complete>>
    BY <1>2 DEF GenGenerate
  <2>2. Calls' = Calls
    BY <2>1, CallsUnchanged
  <2>3. TypeOK' /\ GenFirst'
    BY <1>0, <1>2, <2>1 DEF GenGenerate, TypeOK, GenFirst
  <2> QED
    BY <1>0, <2>1, <2>2, <2>3 DEF KeyInv, FooterWhole, Progress, Completed
<1>3. CASE GenWrite
  <2>0. /\ beta \in Seq(Validator) /\ beta' = beta
        /\ file = NoFile /\ sPc = "idle" /\ sLine = 1 /\ inserted = {}
        /\ UNCHANGED <<sPc, sLine, inserted, complete>> /\ gPc' = "exited"
    BY <1>0, <1>3 DEF GenWrite, GenFirst, TypeOK
  <2>1. Calls \in Seq(Call) /\ Calls' = Calls
    BY <2>0, CallsShape, CallsUnchanged
  <2>2. \A k \in 0..Len(Calls) : SubSeq(Calls, 1, k) \in Seq(Call)
    <3> SUFFICES ASSUME NEW k \in 0..Len(Calls) PROVE SubSeq(Calls, 1, k) \in Seq(Call)
      OBVIOUS
    <3>1. \A i \in 1..k : Calls[i] \in Call
      BY <2>1, ElementOfSeq
    <3> QED
      BY <3>1, SubSeqProperties
  <2>3. /\ file' \in [calls : Seq(Call), footer : BOOLEAN]
        /\ file'.footer => file'.calls = Calls
    <3> DEFINE Whole == [calls |-> Calls, footer |-> TRUE]
               Cut(k) == [calls |-> SubSeq(Calls, 1, k), footer |-> FALSE]
    <3>1. file' \in {NoFile, Whole} \cup {Cut(k) : k \in 0..Len(Calls)}
      BY <1>3, <2>0 DEF GenWrite
    <3>2. NoFile \in [calls : Seq(Call), footer : BOOLEAN] /\ ~NoFile.footer
      BY EmptySeq DEF NoFile
    <3>3. Whole \in [calls : Seq(Call), footer : BOOLEAN] /\ Whole.footer = TRUE
          /\ Whole.calls = Calls
      BY <2>1 DEF Whole
    <3>4. \A k \in 0..Len(Calls) :
            Cut(k) \in [calls : Seq(Call), footer : BOOLEAN] /\ ~Cut(k).footer
      BY <2>2 DEF Cut
    <3>5. CASE file' = NoFile
      BY <3>2, <3>5
    <3>7. CASE file' = Whole
      BY <3>3, <3>7
    <3>6. CASE file' \in {Cut(k) : k \in 0..Len(Calls)}
      <4>1. PICK k \in 0..Len(Calls) : file' = Cut(k)
        BY <3>6
      <4> QED
        BY <3>4, <4>1, Zenon
    <3> QED
      BY <3>1, <3>5, <3>6, <3>7
  <2>4. complete = FALSE
    BY <1>0, <2>0 DEF Completed, NoFile
  <2>5. TypeOK'
    BY <1>0, <1>3, <2>0, <2>3 DEF GenWrite, TypeOK
  <2>6. Progress'
    <3>1. Len(file'.calls) \in Nat
      BY <2>3, LenProperties
    <3> QED
      BY <2>0, <3>1 DEF Progress
  <2> QED
    BY <2>0, <2>1, <2>3, <2>4, <2>5, <2>6
       DEF KeyInv, GenFirst, FooterWhole, Completed
<1>4. CASE RunStart \/ RunConfirm
  <2>1. UNCHANGED <<gPc, beta, file, sLine, inserted, complete>>
        /\ sPc' \in {"confirm", "run", "exited"} /\ gPc = "exited"
    BY <1>0, <1>4 DEF RunStart, RunConfirm, GenFirst
  <2>2. Calls' = Calls
    BY <2>1, CallsUnchanged
  <2>3. TypeOK'
    BY <1>0, <1>4, <2>1 DEF RunStart, RunConfirm, TypeOK
  <2>4. complete = FALSE
    BY <1>0, <1>4 DEF RunStart, RunConfirm, Completed
  <2> QED
    BY <1>0, <2>1, <2>2, <2>3, <2>4
       DEF KeyInv, GenFirst, FooterWhole, Progress, Completed
<1>5. CASE RunInsert
  <2> DEFINE c == file.calls[sLine]
             t == <<c.port, c.key, c.val>>
  <2>0. /\ sPc = "run" /\ sLine \in 1..Len(file.calls)
        /\ UNCHANGED <<gPc, beta, gExit, file, complete>>
    BY <1>0, <1>5 DEF RunInsert, TypeOK
  <2>1. c \in Call
    BY <1>0, <2>0, ElementOfSeq DEF TypeOK
  <2>2. t \in Nat \X KeyTypes \X Validator
    BY <2>1 DEF Call
  <2>3. Calls' = Calls
    BY <2>0, CallsUnchanged
  <2>4. complete = FALSE
    BY <1>0, <2>0 DEF Completed
  <2>5. CASE inserted' = inserted \cup {t} /\ sLine' = sLine + 1 /\ UNCHANGED sPc
    <3>1. TypeOK'
      BY <1>0, <2>0, <2>2, <2>5 DEF TypeOK
    <3>2. Progress'
      BY <1>0, <2>0, <2>5 DEF Progress
    <3> QED
      BY <1>0, <2>0, <2>3, <2>4, <2>5, <3>1, <3>2
         DEF KeyInv, GenFirst, FooterWhole, Completed
  <2>6. CASE inserted' \in {inserted, inserted \cup {t}} /\ sPc' = "exited"
             /\ UNCHANGED sLine
    <3>1. inserted \subseteq inserted'
      BY <2>6
    <3>2. TypeOK'
      BY <1>0, <2>0, <2>2, <2>6 DEF TypeOK
    <3>3. Progress'
      BY <1>0, <2>0, <2>6, <3>1 DEF Progress
    <3> QED
      BY <1>0, <2>0, <2>3, <2>4, <2>6, <3>2, <3>3
         DEF KeyInv, GenFirst, FooterWhole, Completed
  <2> QED
    BY <1>5, <2>5, <2>6 DEF RunInsert
<1>6. CASE RunFooter
  <2>1. /\ sPc = "run" /\ sLine > Len(file.calls) /\ complete' = file.footer
        /\ sPc' = "exited" /\ UNCHANGED <<gPc, beta, gExit, file, sLine, inserted>>
    BY <1>6 DEF RunFooter
  <2>2. Calls' = Calls
    BY <2>1, CallsUnchanged
  <2>3. sLine = Len(file.calls) + 1
    BY <1>0, <2>1 DEF Progress, TypeOK
  <2>4. TypeOK'
    BY <1>0, <2>1 DEF TypeOK
  <2> QED
    BY <1>0, <2>1, <2>2, <2>3, <2>4
       DEF KeyInv, GenFirst, FooterWhole, Progress, Completed
<1>7. CASE Done \/ UNCHANGED vars
  <2>1. UNCHANGED vars
    BY <1>7 DEF Done
  <2>2. Calls' = Calls
    BY <2>1, CallsUnchanged DEF vars
  <2> QED
    BY <1>0, <2>1, <2>2
       DEF vars, KeyInv, TypeOK, GenFirst, FooterWhole, Progress, Completed
<1> QED
  BY <1>1, <1>2, <1>3, <1>4, <1>5, <1>6, <1>7 DEF Next

\* Every reachable state of the generator and of the script it writes is
\* well typed for all constants: in particular the script only ever sends
\* calls built from the validator entries of the JSON list.
THEOREM KeyTypeCorrect == Spec => []TypeOK
<1>1. KeyInv => TypeOK
  BY DEF KeyInv
<1> QED
  BY <1>1, KeyInvInit, KeyInvStep, PTL DEF Spec

\* For every value of the constants: when insert-all-beta-keys.sh prints
\* "Key insertion complete!", every validator in validators[:8] has all six
\* session keys in the keystore of the node on its own port.
THEOREM AllKeysOnCompletion == Spec => []CompleteImpliesAllKeys
<1>1. KeyInv => CompleteImpliesAllKeys
  <2> SUFFICES ASSUME KeyInv, complete,
                      NEW i \in 1..Len(Used), NEW k \in KeyTypes
               PROVE  <<BasePort + i, k, Used[i]>> \in inserted
    BY DEF CompleteImpliesAllKeys
  <2>1. PICK j \in 1..6 : KeyOrder[j] = k
    BY DEF KeyTypes, KeyOrder
  <2>2. file.calls = Calls /\ sLine = Len(Calls) + 1
    BY DEF KeyInv, Completed, FooterWhole
  <2>3. Len(Calls) = Len(Used) * 6 /\ Len(Used) \in Nat
    BY CallsShape, UsedSeq DEF KeyInv, TypeOK
  <2>4. (i - 1) * 6 + j \in 1..(sLine - 1)
    BY <2>2, <2>3
  <2>5. Calls[(i - 1) * 6 + j] =
          [port |-> BasePort + i, key |-> KeyOrder[j], val |-> Used[i]]
    BY CallsShape DEF KeyInv, TypeOK
  <2> DEFINE n == (i - 1) * 6 + j
  <2>6. <<file.calls[n].port, file.calls[n].key, file.calls[n].val>> \in inserted
    BY <2>4 DEF KeyInv, Progress
  <2>7. file.calls[n].port = BasePort + i /\ file.calls[n].key = k
        /\ file.calls[n].val = Used[i]
    BY <2>1, <2>2, <2>5
  <2> QED
    BY <2>6, <2>7
<1> QED
  BY <1>1, KeyInvInit, KeyInvStep, PTL DEF Spec
=============================================================================
