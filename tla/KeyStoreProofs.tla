--------------------------- MODULE KeyStoreProofs ---------------------------
(***************************************************************************)
(* Theorems about the credential files, for any number of invocations that *)
(* share them, any configured tokens, and any number of kills and I/O      *)
(* errors.                                                                 *)
(***************************************************************************)
EXTENDS KeyStore, TLAPS

\* Positions of a process that holds its key, and of one that holds its token.
Saving == {"openToken", "writeToken", "openJson", "writeJson"}
Past == {"openPub", "writePub", "readJson", "readToken", "done"} \cup Saving
Labels == {"new", "exists", "read", "open", "write"} \cup Past \cup Ended

TypeOK ==
  /\ key \in Keys \cup {Absent, Empty} /\ pub \in Keys \cup {Absent, Empty}
  /\ token \in Tokens \cup {Absent, Empty} /\ json \in Saved \cup {Absent, Empty}
  /\ pc \in [Proc -> Labels]
  /\ mode \in [Proc -> {"credentials", "public"}]
  /\ conf \in [Proc -> Configured \cup {None}]
  /\ mine \in [Proc -> Keys \cup {None}]
  /\ tok \in [Proc -> Tokens \cup {None}]
  /\ current \subseteq Tokens
  /\ faults \in Nat

\* What a process holds at each position.
Context ==
  \A p \in Proc :
    /\ pc[p] \in Past \cup {"write"} => mine[p] \in Keys
    /\ pc[p] \in Saving => tok[p] \in Tokens
    /\ pc[p] = "readToken" => conf[p] = None

Inv == TypeOK /\ Context

\* Without a race, and when no process has missed the key: while there is no key, at
\* most one process runs; only it makes the key, and whoever is past the key uses the
\* one on disk.
OneKey ==
  /\ key \in {Absent, Empty} => \A p, q \in Proc : Running(p) /\ Running(q) => p = q
  /\ \A p \in Proc :
       /\ pc[p] = "open" => key \in {Absent, Empty}
       /\ pc[p] = "write" => key = Empty /\ mine[p] = p
       /\ pc[p] \in Past => key \in Keys /\ mine[p] = key

\* Then, too: what was published belongs to that key.
Published ==
  /\ pub \in {key, Absent, Empty}
  /\ json \in Saved => json.pub = key

\* Without faults as well: a file is empty only under the hands of a process, and
\* relay.pub is there when a process is past it.
InHand ==
  /\ pub = Empty => \E p \in Proc : pc[p] = "writePub"
  /\ token = Empty => \E p \in Proc : pc[p] = "writeToken"
  /\ json = Empty => \E p \in Proc : pc[p] = "writeJson"
  /\ \A p \in Proc : pc[p] \in Past \ {"openPub"} => pub # Absent

\* Without overlap: one process runs, with the key on disk; what it has written is in the files, and the
\* tokens in the files are those a start may find.
Alone ==
  /\ \A p, q \in Proc : Running(p) /\ Running(q) => p = q
  /\ \A p \in Proc : pc[p] \in Past \ {"done"} => mine[p] = key
  /\ \A p \in Proc : pc[p] \in {"openJson", "writeJson"} => token = tok[p]
  /\ \A p \in Proc : pc[p] \in Saving \ {"openToken"} => tok[p] \in current
  /\ token \in Tokens => token \in current
  /\ json \in Saved => json.token \in current

Started == \E q \in Proc : Done(q) /\ mode[q] = "credentials"

\* Without overlap, after a completed start: a file that is not readable is under
\* the hands of a process, or the one fault there was has spoiled it; then the other
\* file is readable, whenever a process looks for its token there.
Kept ==
  /\ faults = 0 => /\ token \in Tokens \/ \E p \in Proc : pc[p] = "writeToken"
                   /\ json \in Saved \/ \E p \in Proc : pc[p] = "writeJson"
  /\ faults <= 1 => \/ token \in Tokens \/ json \in Saved
                    \/ \E p \in Proc : pc[p] = "writeToken"
  /\ faults <= 1 => \A p \in Proc : pc[p] = "readToken" => token \in Tokens /\ faults = 1

KeyInv ==
  /\ Inv
  /\ faults = 0 => ~ blind
  /\ ~ race /\ ~ blind => OneKey /\ Published
  /\ ~ race /\ faults = 0 => InHand
  /\ ~ overlap => ~ race /\ Alone
  /\ ~ overlap /\ Started => Kept

-----------------------------------------------------------------------------
(* Names, types and what a process holds *)

\* No file content, key or token is mistaken for a missing or an empty file.
LEMMA Distinct ==
  /\ Absent \notin Keys /\ Empty \notin Keys /\ None \notin Keys
  /\ Absent \notin Tokens /\ Empty \notin Tokens /\ None \notin Tokens
  /\ Absent \notin Saved /\ Empty \notin Saved /\ Absent # Empty
BY KeyStoreAssumption, SavedAssumption DEF Keys, Tokens

\* What a saved relay.json holds.
LEMMA SavedFields ==
  /\ \A j \in Saved : j.pub \in Keys /\ j.token \in Tokens
  /\ \A k \in Keys, t \in Tokens : [pub |-> k, token |-> t] \in Saved
BY DEF Saved

\* A step of one process.
Step(p) ==
  \/ Start(p) \/ KeyExists(p) \/ ReadKey(p) \/ OpenKey(p) \/ WriteKey(p)
  \/ OpenPub(p) \/ WritePub(p) \/ ReadJson(p) \/ ReadToken(p)
  \/ OpenToken(p) \/ WriteToken(p) \/ OpenJson(p) \/ WriteJson(p)
  \/ Kill(p) \/ StatError(p) \/ IOError(p) \/ ReadError(p)

\* Next is a step of one process, or none when all have ended.
LEMMA NextStep == Next => UNCHANGED vars \/ \E p \in Proc : Step(p)
BY Zenon DEF Next, Step, AllEnded

\* Every step keeps the types and what processes hold.
LEMMA InvStep ==
  ASSUME Inv, NEW p \in Proc, Step(p)
  PROVE Inv'
<1> USE Distinct, SavedFields DEF Inv, TypeOK, Context, Past, Saving, Labels, Ended, files, history
<1> HIDE DEF Saved
<1>k. p \in Keys /\ p \in Tokens /\ Configured \subseteq Tokens
  BY DEF Keys, Tokens
<1>1. CASE Start(p)
  BY <1>1, <1>k DEF Start, Goto
<1>2. CASE KeyExists(p)
  BY <1>2, <1>k DEF KeyExists, Goto
<1>3. CASE ReadKey(p)
  BY <1>3, <1>k DEF ReadKey, Goto, ParsePrivateKey
<1>4. CASE OpenKey(p)
  BY <1>4, <1>k DEF OpenKey, Goto
<1>5. CASE WriteKey(p)
  BY <1>5, <1>k DEF WriteKey, Goto
<1>6. CASE OpenPub(p)
  BY <1>6, <1>k DEF OpenPub, Goto
<1>7. CASE WritePub(p)
  BY <1>7, <1>k DEF WritePub, Goto, AfterPub
<1>8. CASE ReadJson(p)
  BY <1>8, <1>k DEF ReadJson, Goto
<1>9. CASE ReadToken(p)
  BY <1>9, <1>k DEF ReadToken, Goto
<1>10. CASE OpenToken(p)
  BY <1>10, <1>k DEF OpenToken, Goto
<1>11. CASE WriteToken(p)
  BY <1>11, <1>k DEF WriteToken, Goto
<1>12. CASE OpenJson(p)
  BY <1>12, <1>k DEF OpenJson, Goto
<1>13. CASE WriteJson(p)
  BY <1>13, <1>k DEF WriteJson, Goto
<1>14. CASE Kill(p)
  BY <1>14, <1>k DEF Kill, Goto, Fault, Running
<1>15. CASE IOError(p)
  BY <1>15, <1>k DEF IOError, Goto, Fault, AfterPub
<1>16. CASE ReadError(p)
  BY <1>16, <1>k DEF ReadError, Goto, Fault
<1>17. CASE StatError(p)
  BY <1>17, <1>k DEF StatError, Goto, Fault
<1> QED
  BY <1>1, <1>2, <1>3, <1>4, <1>5, <1>6, <1>7, <1>8,
     <1>9, <1>10, <1>11, <1>12, <1>13, <1>14, <1>15, <1>16, <1>17, Zenon DEF Step

\* Only a start changes the history of races and overlaps, and it records both; a
\* failing stat of an existing key is recorded and is a fault.
LEMMA HistoryStep ==
  ASSUME NEW p \in Proc, Step(p)
  PROVE /\ ~ race' => ~ race
        /\ ~ race' /\ Start(p) /\ key \in {Absent, Empty} => \A q \in Proc : ~ Running(q)
        /\ ~ overlap' => ~ overlap
        /\ ~ overlap' /\ Start(p) => \A q \in Proc : ~ Running(q)
        /\ ~ Start(p) => race' = race
        /\ ~ blind' => ~ blind
        /\ ~ blind' /\ StatError(p) => key \notin Keys
        /\ ~ StatError(p) => blind' = blind
<1>b. CASE StatError(p)
  <2>1. UNCHANGED <<race, overlap>> /\ blind' = (blind \/ key \in Keys) /\ pc[p] = "exists"
    BY <1>b, Zenon DEF StatError
  <2>2. ~ Start(p)
    BY <2>1 DEF Start
  <2> QED BY <1>b, <2>1, <2>2, Zenon
<1>1. CASE Start(p)
  <2>1. ~ StatError(p)
    BY <1>1 DEF Start, StatError
  <2> QED BY <1>1, <2>1, Zenon DEF Start
<1>2. CASE ~ Start(p) /\ ~ StatError(p)
  <2>1. race' = race /\ overlap' = overlap /\ blind' = blind
    BY <1>2, SMT DEF history, Step, KeyExists, ReadKey, OpenKey, WriteKey, OpenPub,
       WritePub, ReadJson, ReadToken, OpenToken, WriteToken, OpenJson, WriteJson, Kill, IOError, ReadError
  <2> QED BY <1>2, <2>1
<1> QED BY <1>b, <1>1, <1>2

-----------------------------------------------------------------------------
(* One key *)

\* A step that is in no race and misses no key keeps one key, and what is published belongs to it.
LEMMA OneKeyStep ==
  ASSUME Inv, Inv', OneKey, Published, NEW p \in Proc, Step(p), ~ race', ~ blind'
  PROVE OneKey' /\ Published'
<1> USE Distinct, SavedFields
    DEF Inv, TypeOK, Context, Past, Saving, Labels, Ended, Running, files, history, OneKey, Published
<1> HIDE DEF Saved
<1>k. p \in Keys
  BY DEF Keys
<1>h. Start(p) => key \in Keys \/ \A q \in Proc : ~ Running(q)
  BY HistoryStep, Zenon
<1>b. StatError(p) => key \notin Keys
  BY HistoryStep, Zenon
<1>1. CASE Start(p)
  <2>1. /\ pc[p] = "new" /\ pc' = [pc EXCEPT ![p] = "exists"]
        /\ UNCHANGED <<files, mine>>
    BY <1>1, Zenon DEF Start, Goto
  <2> QED BY <1>1, <1>h, <2>1
<1>2. CASE KeyExists(p)
  BY <1>2, <1>k DEF KeyExists, Goto
<1>3. CASE ReadKey(p)
  BY <1>3, <1>k DEF ReadKey, Goto, ParsePrivateKey
<1>4. CASE OpenKey(p)
  BY <1>4, <1>k DEF OpenKey, Goto
<1>5. CASE WriteKey(p)
  BY <1>5, <1>k DEF WriteKey, Goto
<1>6. CASE OpenPub(p)
  BY <1>6, <1>k DEF OpenPub, Goto
<1>7. CASE WritePub(p)
  BY <1>7, <1>k DEF WritePub, Goto, AfterPub
<1>8. CASE ReadJson(p)
  BY <1>8, <1>k DEF ReadJson, Goto
<1>9. CASE ReadToken(p)
  BY <1>9, <1>k DEF ReadToken, Goto
<1>10. CASE OpenToken(p)
  BY <1>10, <1>k DEF OpenToken, Goto
<1>11. CASE WriteToken(p)
  BY <1>11, <1>k DEF WriteToken, Goto
<1>12. CASE OpenJson(p)
  BY <1>12, <1>k DEF OpenJson, Goto
<1>13. CASE WriteJson(p)
  BY <1>13, <1>k DEF WriteJson, Goto
<1>14. CASE Kill(p)
  BY <1>14, <1>k DEF Kill, Goto, Fault
<1>15. CASE IOError(p)
  BY <1>15, <1>k DEF IOError, Goto, Fault, AfterPub
<1>16. CASE ReadError(p)
  BY <1>16, <1>k DEF ReadError, Goto, Fault
<1>17. CASE StatError(p)
  BY <1>17, <1>b, <1>k DEF StatError, Goto, Fault
<1> QED
  BY <1>1, <1>2, <1>3, <1>4, <1>5, <1>6, <1>7, <1>8,
     <1>9, <1>10, <1>11, <1>12, <1>13, <1>14, <1>15, <1>16, <1>17, Zenon DEF Step

\* Without a fault no file stays empty: the process that opened it writes it.
LEMMA InHandStep ==
  ASSUME Inv, Inv', OneKey, InHand, NEW p \in Proc, Step(p), ~ race', faults' = 0
  PROVE InHand'
<1> USE Distinct, SavedFields
    DEF Inv, TypeOK, Context, Past, Saving, Labels, Ended, Running, files, history, OneKey, InHand
<1> HIDE DEF Saved
<1>1. CASE Start(p)
  <2>1. /\ pc[p] = "new" /\ pc' = [pc EXCEPT ![p] = "exists"]
        /\ UNCHANGED <<files, mine>>
    BY <1>1, Zenon DEF Start, Goto
  <2> QED BY <1>1, <2>1
<1>2. CASE KeyExists(p)
  BY <1>2 DEF KeyExists, Goto
<1>3. CASE ReadKey(p)
  BY <1>3 DEF ReadKey, Goto, ParsePrivateKey
<1>4. CASE OpenKey(p)
  BY <1>4 DEF OpenKey, Goto
<1>5. CASE WriteKey(p)
  BY <1>5 DEF WriteKey, Goto
<1>6. CASE OpenPub(p)
  BY <1>6 DEF OpenPub, Goto
<1>7. CASE WritePub(p)
  BY <1>7 DEF WritePub, Goto, AfterPub
<1>8. CASE ReadJson(p)
  BY <1>8 DEF ReadJson, Goto
<1>9. CASE ReadToken(p)
  BY <1>9 DEF ReadToken, Goto
<1>10. CASE OpenToken(p)
  BY <1>10 DEF OpenToken, Goto
<1>11. CASE WriteToken(p)
  BY <1>11 DEF WriteToken, Goto
<1>12. CASE OpenJson(p)
  BY <1>12 DEF OpenJson, Goto
<1>13. CASE WriteJson(p)
  BY <1>13 DEF WriteJson, Goto
<1>14. CASE Kill(p)
  BY <1>14 DEF Kill, Goto, Fault
<1>15. CASE IOError(p)
  BY <1>15 DEF IOError, Goto, Fault, AfterPub
<1>16. CASE ReadError(p)
  BY <1>16 DEF ReadError, Goto, Fault
<1>17. CASE StatError(p)
  BY <1>17 DEF StatError, Goto, Fault
<1> QED
  BY <1>1, <1>2, <1>3, <1>4, <1>5, <1>6, <1>7, <1>8,
     <1>9, <1>10, <1>11, <1>12, <1>13, <1>14, <1>15, <1>16, <1>17, Zenon DEF Step

-----------------------------------------------------------------------------
(* Starts that do not overlap *)

\* A step without overlap keeps one process running, and its files as it left them.
LEMMA AloneStep ==
  ASSUME Inv, Inv', Alone, NEW p \in Proc, Step(p), ~ overlap'
  PROVE Alone'
<1> USE Distinct, SavedFields
    DEF Inv, TypeOK, Context, Past, Saving, Labels, Ended, Running, files, history, Alone
<1> HIDE DEF Saved
<1>h. Start(p) => \A q \in Proc : ~ Running(q)
  BY HistoryStep, Zenon
<1>1. CASE Start(p)
  <2>1. /\ pc[p] = "new" /\ pc' = [pc EXCEPT ![p] = "exists"]
        /\ UNCHANGED <<files, tok, current>>
    BY <1>1, Zenon DEF Start, Goto
  <2> QED BY <1>1, <1>h, <2>1
<1>2. CASE KeyExists(p)
  BY <1>2 DEF KeyExists, Goto
<1>3. CASE ReadKey(p)
  BY <1>3 DEF ReadKey, Goto, ParsePrivateKey
<1>4. CASE OpenKey(p)
  BY <1>4 DEF OpenKey, Goto
<1>5. CASE WriteKey(p)
  BY <1>5 DEF WriteKey, Goto
<1>6. CASE OpenPub(p)
  BY <1>6 DEF OpenPub, Goto
<1>7. CASE WritePub(p)
  BY <1>7 DEF WritePub, Goto, AfterPub
<1>8. CASE ReadJson(p)
  BY <1>8 DEF ReadJson, Goto
<1>9. CASE ReadToken(p)
  BY <1>9 DEF ReadToken, Goto
<1>10. CASE OpenToken(p)
  BY <1>10 DEF OpenToken, Goto
<1>11. CASE WriteToken(p)
  BY <1>11 DEF WriteToken, Goto
<1>12. CASE OpenJson(p)
  BY <1>12 DEF OpenJson, Goto
<1>13. CASE WriteJson(p)
  BY <1>13 DEF WriteJson, Goto
<1>14. CASE Kill(p)
  BY <1>14 DEF Kill, Goto, Fault
<1>15. CASE IOError(p)
  BY <1>15 DEF IOError, Goto, Fault, AfterPub
<1>16. CASE ReadError(p)
  BY <1>16 DEF ReadError, Goto, Fault
<1>17. CASE StatError(p)
  BY <1>17 DEF StatError, Goto, Fault
<1> QED
  BY <1>1, <1>2, <1>3, <1>4, <1>5, <1>6, <1>7, <1>8,
     <1>9, <1>10, <1>11, <1>12, <1>13, <1>14, <1>15, <1>16, <1>17, Zenon DEF Step

\* A start with a token completes only by writing relay.json.
LEMMA StartedStep ==
  ASSUME Inv, NEW p \in Proc, Step(p), Started'
  PROVE Started \/ WriteJson(p)
<1> USE DEF Inv, TypeOK, Past, Saving, Labels, Ended, Running, Started, Done
<1>n. CASE ~ Start(p)
  <2>1. UNCHANGED mode
    BY <1>n, SMT DEF Step, KeyExists, ReadKey, OpenKey, WriteKey, OpenPub,
       WritePub, ReadJson, ReadToken, OpenToken, WriteToken, OpenJson, WriteJson, Kill, StatError, IOError, ReadError
  <2>2. CASE pc'[p] # "done" \/ mode[p] = "public"
    <3>1. \A q \in Proc \ {p} : pc'[q] = pc[q]
      BY <1>n, SMT DEF Step, Goto, KeyExists, ReadKey, OpenKey, WriteKey, OpenPub,
         WritePub, ReadJson, ReadToken, OpenToken, WriteToken, OpenJson, WriteJson, Kill, StatError, IOError, ReadError
    <3> QED BY <2>1, <2>2, <3>1
  <2>3. CASE pc'[p] = "done" /\ mode[p] # "public"
    BY <1>n, <2>3, SMT DEF Step, Goto, AfterPub, KeyExists, ReadKey, OpenKey, WriteKey, OpenPub,
       WritePub, ReadJson, ReadToken, OpenToken, WriteToken, OpenJson, WriteJson, Kill, StatError, IOError, ReadError
  <2> QED BY <2>2, <2>3
<1>s. CASE Start(p)
  <2>1. /\ pc[p] = "new" /\ pc' = [pc EXCEPT ![p] = "exists"]
        /\ \E m \in {"credentials", "public"} : mode' = [mode EXCEPT ![p] = m]
    BY <1>s, Zenon DEF Start, Goto
  <2> QED BY <2>1
<1> QED BY <1>n, <1>s

\* After a completed start, a step without overlap leaves at least one readable file
\* for whoever looks for a token, as long as there was at most one fault.
LEMMA KeptStep ==
  ASSUME Inv, Inv', Alone, Alone', Started => Kept, NEW p \in Proc, Step(p), ~ overlap', Started'
  PROVE Kept'
<1> USE Distinct, SavedFields
    DEF Inv, TypeOK, Context, Past, Saving, Labels, Ended, Running, files, history, Alone, Kept
<1> HIDE DEF Saved
<1>h. Start(p) => \A q \in Proc : ~ Running(q)
  BY HistoryStep, Zenon
<1>s. Kept \/ pc[p] = "writeJson"
  BY StartedStep, Zenon DEF WriteJson
<1>1. CASE Start(p)
  <2>1. /\ pc[p] = "new" /\ pc' = [pc EXCEPT ![p] = "exists"]
        /\ UNCHANGED <<files, faults>>
    BY <1>1, Zenon DEF Start, Goto
  <2> QED BY <1>1, <1>h, <1>s, <2>1
<1>2. CASE KeyExists(p)
  BY <1>2, <1>s DEF KeyExists, Goto
<1>3. CASE ReadKey(p)
  BY <1>3, <1>s DEF ReadKey, Goto, ParsePrivateKey
<1>4. CASE OpenKey(p)
  BY <1>4, <1>s DEF OpenKey, Goto
<1>5. CASE WriteKey(p)
  BY <1>5, <1>s DEF WriteKey, Goto
<1>6. CASE OpenPub(p)
  BY <1>6, <1>s DEF OpenPub, Goto
<1>7. CASE WritePub(p)
  BY <1>7, <1>s DEF WritePub, Goto, AfterPub
<1>8. CASE ReadJson(p)
  BY <1>8, <1>s DEF ReadJson, Goto
<1>9. CASE ReadToken(p)
  BY <1>9, <1>s DEF ReadToken, Goto
<1>10. CASE OpenToken(p)
  BY <1>10, <1>s DEF OpenToken, Goto
<1>11. CASE WriteToken(p)
  BY <1>11, <1>s DEF WriteToken, Goto
<1>12. CASE OpenJson(p)
  BY <1>12, <1>s DEF OpenJson, Goto
<1>13. CASE WriteJson(p)
  BY <1>13, <1>s DEF WriteJson, Goto
<1>14. CASE Kill(p)
  BY <1>14, <1>s DEF Kill, Goto, Fault
<1>15. CASE IOError(p)
  BY <1>15, <1>s DEF IOError, Goto, Fault, AfterPub
<1>16. CASE ReadError(p)
  BY <1>16, <1>s DEF ReadError, Goto, Fault
<1>17. CASE StatError(p)
  BY <1>17, <1>s DEF StatError, Goto, Fault
<1> QED
  BY <1>1, <1>2, <1>3, <1>4, <1>5, <1>6, <1>7, <1>8,
     <1>9, <1>10, <1>11, <1>12, <1>13, <1>14, <1>15, <1>16, <1>17, Zenon DEF Step

-----------------------------------------------------------------------------
(* The theorems *)

\* The first state satisfies the invariant.
LEMMA KeyInvInit == Init => KeyInv
<1> SUFFICES ASSUME Init PROVE KeyInv
  OBVIOUS
<1>1. Inv /\ ~ Started /\ ~ race /\ ~ blind
  BY Distinct DEF Init, Inv, TypeOK, Context, Past, Saving, Labels, Ended, Started, Done, Keys
<1>2. OneKey /\ Published /\ InHand /\ Alone
  BY Distinct, KeyStoreAssumption
  DEF Init, OneKey, Published, InHand, Alone, Running, Past, Saving, Ended
<1> QED BY <1>1, <1>2, Zenon DEF KeyInv

\* Every step keeps it.
LEMMA KeyInvNext == KeyInv /\ [Next]_vars => KeyInv'
<1>1. ASSUME KeyInv, NEW p \in Proc, Step(p) PROVE KeyInv'
  <2>1. Inv /\ Inv'
    BY <1>1, InvStep, Zenon DEF KeyInv
  <2>b. ASSUME faults' = 0 PROVE faults = 0 /\ ~ blind'
    <3>1. faults = 0 /\ ~ StatError(p)
      BY <1>1, <2>1, <2>b DEF Step, Fault, history, Inv, TypeOK,
         Start, KeyExists, ReadKey, OpenKey, WriteKey, OpenPub,
         WritePub, ReadJson, ReadToken, OpenToken, WriteToken, OpenJson, WriteJson, Kill, StatError, IOError, ReadError
    <3>2. blind' = blind
      BY <1>1, <3>1, HistoryStep, Zenon
    <3> QED BY <1>1, <3>1, <3>2, Zenon DEF KeyInv
  <2>2. ASSUME ~ race', ~ blind' PROVE OneKey' /\ Published'
    BY <1>1, <2>1, <2>2, HistoryStep, OneKeyStep, Zenon DEF KeyInv
  <2>3. ASSUME ~ race', faults' = 0 PROVE InHand'
    BY <1>1, <2>1, <2>b, <2>3, HistoryStep, InHandStep, Zenon DEF KeyInv
  <2>4. ASSUME ~ overlap' PROVE ~ race' /\ Alone /\ Alone'
    <3>1. ~ overlap /\ ~ race /\ Alone
      BY <1>1, <2>4, HistoryStep, Zenon DEF KeyInv
    <3>2. Alone'
      BY <1>1, <2>1, <2>4, <3>1, AloneStep, Zenon
    <3>3. CASE Start(p)
      <4>1. \A q \in Proc : ~ Running(q)
        BY <1>1, <2>4, <3>3, HistoryStep, Zenon
      <4> QED BY <3>1, <3>2, <3>3, <4>1, Zenon DEF Start
    <3>4. CASE ~ Start(p)
      <4>1. race' = race
        BY <1>1, <3>4, HistoryStep, Zenon
      <4> QED BY <3>1, <3>2, <4>1, Zenon
    <3> QED BY <3>3, <3>4
  <2>5. ASSUME ~ overlap', Started' PROVE Kept'
    <3>1. Started => Kept
      BY <1>1, <2>5, HistoryStep, Zenon DEF KeyInv
    <3> QED BY <1>1, <2>1, <2>4, <2>5, <3>1, KeptStep, Zenon
  <2> QED BY <2>1, <2>b, <2>2, <2>3, <2>4, <2>5, Zenon DEF KeyInv
<1>2. ASSUME KeyInv, UNCHANGED vars PROVE KeyInv'
  <2> USE <1>2 DEF vars, files, history
  <2>1. (Inv => Inv') /\ (OneKey => OneKey') /\ (Published => Published')
    BY SMT DEF Inv, TypeOK, Context, OneKey, Published, Running
  <2>2. (InHand => InHand') /\ (Alone => Alone') /\ (Kept => Kept') /\ (Started' => Started)
    BY SMT DEF InHand, Alone, Kept, Started, Done, Running
  <2> QED BY <2>1, <2>2, Zenon DEF KeyInv
<1> QED BY <1>1, <1>2, NextStep, Zenon

\* The invariant holds in every reachable state.
LEMMA KeyInvHolds == Spec => []KeyInv
BY KeyInvInit, KeyInvNext, PTL DEF Spec

\* All invocations that complete use the same private key, whatever is killed or fails
\* in between, unless one starts while another is making the first key, or a stat of the
\* key file fails while there is a key: load_or_generate_keypair then replaces it.
THEOREM OneKeyForAll == Spec => []KeyStable
<1>1. KeyInv => KeyStable
  BY DEF KeyInv, OneKey, KeyStable, Done, Past
<1> QED BY <1>1, KeyInvHolds, PTL

\* When nothing has failed and nothing runs, relay.pub and relay.json show the public
\* key of relay.key and no file is empty.
THEOREM PublicKeyInSync == Spec => []PublishedInSync
<1>1. KeyInv => PublishedInSync
  <2> SUFFICES ASSUME KeyInv, Quiet, faults = 0, ~ race, NEW p \in Proc, Done(p)
               PROVE /\ pub = key /\ Empty \notin {key, pub, token, json}
                     /\ json # Absent => json.pub = key
    BY Zenon DEF PublishedInSync
  <2>1. OneKey /\ Published /\ InHand /\ Inv
    BY Zenon DEF KeyInv
  <2> QED BY <2>1, Distinct
          DEF OneKey, Published, InHand, Inv, TypeOK, Quiet, Running, Done, Past, Saving, Ended
<1> QED BY <1>1, KeyInvHolds, PTL

\* What RestartHeals asks of one step.
LEMMA HealingStep ==
  ASSUME KeyInv, Next, ~ overlap, NEW p \in Proc, ~ Done(p), Done(p)', mode[p] = "credentials"
  PROVE /\ token' = tok[p] /\ key' = mine[p]
        /\ json' = [pub |-> key', token |-> token']
<1>1. Inv /\ Alone
  BY Zenon DEF KeyInv
<1>2. PICK q \in Proc : Step(q)
  BY NextStep, Zenon DEF vars, Done
<1>3. q = p /\ WriteJson(p)
  BY <1>1, <1>2, SMT DEF Inv, TypeOK, Done, Step, Goto, AfterPub,
     Start, KeyExists, ReadKey, OpenKey, WriteKey, OpenPub,
     WritePub, ReadJson, ReadToken, OpenToken, WriteToken, OpenJson, WriteJson, Kill, StatError, IOError, ReadError
<1> QED BY <1>1, <1>3 DEF WriteJson, Alone, Past, Saving

\* A start that completes without overlap leaves relay.token, relay.json and relay.key
\* saying what it uses, whatever earlier starts left behind (persist_token).
THEOREM CompletedStartHeals == Spec => RestartHeals
<1>1. KeyInv /\ [Next]_vars =>
        [~ overlap => \A p \in Proc :
            ~ Done(p) /\ Done(p)' /\ mode[p] = "credentials"
            => /\ token' = tok[p] /\ key' = mine[p]
               /\ json' = [pub |-> key', token |-> token']]_vars
  BY HealingStep, Zenon
<1> QED BY <1>1, KeyInvHolds, PTL DEF Spec, RestartHeals

\* What TokenKept asks of one step.
LEMMA KeepingStep ==
  ASSUME KeyInv, Next, ~ overlap, faults' <= 1, NEW p \in Proc,
         tok'[p] \notin {tok[p], None}, conf[p] = None,
         \E q \in Proc : Done(q) /\ mode[q] = "credentials"
  PROVE tok'[p] \in current
<1>1. Inv /\ Alone /\ Kept
  BY Zenon DEF KeyInv, Started
<1>2. PICK q \in Proc : Step(q)
  BY NextStep, Zenon DEF vars
<1>3. q = p /\ (ReadJson(p) \/ ReadToken(p) \/ ReadError(p))
  <2>1. ReadJson(q) \/ ReadToken(q) \/ ReadError(q) \/ tok' = tok
    BY <1>2, Zenon DEF Step, Start, KeyExists, ReadKey, OpenKey, WriteKey, OpenPub, WritePub, OpenToken,
       WriteToken, OpenJson, WriteJson, Kill, StatError, IOError
  <2>2. tok' = tok \/ \E x : tok' = [tok EXCEPT ![q] = x]
    BY <2>1, Zenon DEF ReadJson, ReadToken, ReadError
  <2>3. q = p
    BY <1>1, <2>2 DEF Inv, TypeOK
  <2> QED BY <2>1, <2>3, Zenon
<1>4. CASE ReadJson(p)
  <2>1. tok'[p] = IF json \in {Absent, Empty} THEN None ELSE json.token
    BY <1>1, <1>4 DEF ReadJson, Inv, TypeOK
  <2>2. json \in Saved
    BY <1>1, <2>1, Zenon DEF Inv, TypeOK
  <2> QED BY <1>1, <2>1, <2>2, Distinct, Zenon DEF Alone
<1>5. CASE ReadToken(p)
  BY <1>1, <1>5, Distinct DEF ReadToken, Inv, TypeOK, Alone, Kept
<1>6. CASE ReadError(p)
  BY <1>1, <1>6, Distinct DEF ReadError, Fault, Inv, TypeOK, Kept
<1> QED BY <1>3, <1>4, <1>5, <1>6

\* Without overlap and with at most one fault, a start that is given no token takes one
\* a completed or an interrupted start has saved, once any start has completed.
THEOREM SavedTokenFound == Spec => TokenKept
<1>1. KeyInv /\ [Next]_vars =>
        [~ overlap /\ faults' <= 1 => \A p \in Proc :
            tok'[p] \notin {tok[p], None} /\ conf[p] = None
            /\ (\E q \in Proc : Done(q) /\ mode[q] = "credentials")
            => tok'[p] \in current]_vars
  BY KeepingStep, Zenon
<1> QED BY <1>1, KeyInvHolds, PTL DEF Spec, TokenKept


=============================================================================
