------------------------------- MODULE KeyStore -------------------------------
(***************************************************************************)
(* The credential files of the relay (crypto/keys.rs, server/config.rs)    *)
(* and the processes that share them: the daemon, `--show-credentials` and *)
(* `--show-public-key`, each of which loads or creates the same files with *)
(* no lock (main.rs 14-66).  A process is one invocation and runs once.    *)
(*                                                                         *)
(* Files are relay.key, relay.pub, relay.token and relay.json.  Opening    *)
(* one for writing truncates it, so a write is two steps with an empty     *)
(* file between them; a process may be killed, or an I/O call fail, before *)
(* any of them.  The key a process generates and the token it generates    *)
(* are both named by the process.  The key path is the default relay.key,  *)
(* for which the second public key file of write_public_key_file is the    *)
(* first one.                                                              *)
(***************************************************************************)
EXTENDS Naturals, FiniteSets

CONSTANTS
  Proc,          \* invocations of the binary
  Configured,    \* tokens an operator may pass with --secret or the environment
  InitialKey,    \* what relay.key may hold at first: Absent or an operator's key
  Absent,        \* no such file
  Empty,         \* a file that was truncated and not written
  None,          \* no token, no key
  Concurrency,   \* bound: invocations running at the same time
  MaxFaults      \* bound: kills and I/O errors

ASSUME KeyStoreAssumption ==
  /\ Concurrency \in Nat \ {0} /\ MaxFaults \in Nat
  /\ {Absent, Empty, None} \cap (Proc \cup Configured) = {}
  /\ Absent # Empty
  /\ {Empty, None} \cap InitialKey = {}

\* What may be in relay.key and relay.pub, in relay.token and in relay.json.
Keys == Proc \cup (InitialKey \ {Absent})
Tokens == Proc \cup Configured
Saved == [pub : Keys, token : Tokens]

ASSUME SavedAssumption == {Absent, Empty} \cap Saved = {}

VARIABLES
  key, pub, token, json,   \* the four files
  pc,                      \* where each process is
  mode,                    \* "credentials" (daemon too) or "public" (--show-public-key)
  conf,                    \* the configured token of each process, None when unset
  mine,                    \* the private key a process holds
  tok,                     \* the token a process holds
  current,                 \* history: tokens a start may find saved
  overlap,                 \* history: two processes have run at the same time
  race,                    \* history: one started while another was making the key
  blind,                   \* history: a key was there and one failed to see it
  faults                   \* kills and I/O errors so far

files == <<key, pub, token, json>>
history == <<current, overlap, race, blind>>
vars == <<files, pc, mode, conf, mine, tok, history, faults>>

Ended == {"done", "invalid", "failed", "killed"}
Running(p) == pc[p] \notin Ended \cup {"new"}

Init ==
  /\ key \in InitialKey
  /\ pub = Absent /\ token = Absent /\ json = Absent
  /\ pc = [p \in Proc |-> "new"]
  /\ mode = [p \in Proc |-> "credentials"]
  /\ conf = [p \in Proc |-> None]
  /\ mine = [p \in Proc |-> None]
  /\ tok = [p \in Proc |-> None]
  /\ current = {} /\ overlap = FALSE /\ race = FALSE /\ blind = FALSE /\ faults = 0

Goto(p, l) == pc' = [pc EXCEPT ![p] = l]

Start(p) ==
  /\ pc[p] = "new" /\ Cardinality({q \in Proc : Running(q)}) < Concurrency
  /\ \E m \in {"credentials", "public"} : mode' = [mode EXCEPT ![p] = m]
  /\ \E c \in Configured \cup {None} : conf' = [conf EXCEPT ![p] = c]
  /\ Goto(p, "exists")
  /\ overlap' = (overlap \/ \E q \in Proc : Running(q))
  /\ race' = (race \/ (key \in {Absent, Empty} /\ \E q \in Proc : Running(q)))
  /\ UNCHANGED <<files, mine, tok, current, blind, faults>>

-----------------------------------------------------------------------------
(* load_or_generate_keypair *)

ExistsAlwaysCreates(p) ==
  /\ pc[p] = "exists" /\ Goto(p, "open")
  /\ UNCHANGED <<files, mode, conf, mine, tok, history, faults>>

\* The test is not redone when the file is opened.
KeyExists(p) ==
  /\ pc[p] = "exists"
  /\ Goto(p, IF key # Absent THEN "read" ELSE "open")
  /\ UNCHANGED <<files, mode, conf, mine, tok, history, faults>>

\* Raw, hex or base64: what decodes to 32 bytes is the key, an empty file is not.
ParsePrivateKey(content) == IF content \in Keys THEN content ELSE None

ReadKey(p) ==
  /\ pc[p] = "read"
  /\ mine' = [mine EXCEPT ![p] = ParsePrivateKey(key)]
  /\ Goto(p, IF ParsePrivateKey(key) = None THEN "invalid" ELSE "openPub")
  /\ UNCHANGED <<files, mode, conf, tok, history, faults>>

OpenKey(p) ==
  /\ pc[p] = "open"
  /\ mine' = [mine EXCEPT ![p] = p]
  /\ key' = Empty /\ Goto(p, "write")
  /\ UNCHANGED <<pub, token, json, mode, conf, tok, history, faults>>

WriteKey(p) ==
  /\ pc[p] = "write"
  /\ key' = mine[p] /\ Goto(p, "openPub")
  /\ UNCHANGED <<pub, token, json, mode, conf, mine, tok, history, faults>>

AfterPub(p) == IF mode[p] = "public" THEN "done" ELSE "readJson"

OpenPubIfCreated(p) ==
  /\ pc[p] = "openPub"
  /\ IF mine[p] = p THEN pub' = Empty /\ Goto(p, "writePub")
                    ELSE pub' = pub /\ Goto(p, AfterPub(p))
  /\ UNCHANGED <<key, token, json, mode, conf, mine, tok, history, faults>>

OpenPub(p) ==
  /\ pc[p] = "openPub"
  /\ pub' = Empty /\ Goto(p, "writePub")
  /\ UNCHANGED <<key, token, json, mode, conf, mine, tok, history, faults>>

WritePub(p) ==
  /\ pc[p] = "writePub"
  /\ pub' = mine[p] /\ Goto(p, AfterPub(p))
  /\ UNCHANGED <<key, token, json, mode, conf, mine, tok, history, faults>>

-----------------------------------------------------------------------------
(* RelaySecrets::load_or_generate: the token, and persist_token *)

\* A configured token is taken as it is; the token file is only looked at when
\* relay.json has no token.
ReadJson(p) ==
  /\ pc[p] = "readJson"
  /\ LET found == IF conf[p] # None THEN conf[p]
                  ELSE IF json \in {Absent, Empty} THEN None ELSE json.token
     IN  /\ tok' = [tok EXCEPT ![p] = found]
         /\ Goto(p, IF found = None THEN "readToken" ELSE "openToken")
  /\ UNCHANGED <<files, mode, conf, mine, history, faults>>

ReadTokenIgnored(p) ==
  /\ pc[p] = "readToken"
  /\ tok' = [tok EXCEPT ![p] = p] /\ Goto(p, "openToken")
  /\ UNCHANGED <<files, mode, conf, mine, history, faults>>

ReadToken(p) ==
  /\ pc[p] = "readToken"
  /\ tok' = [tok EXCEPT ![p] = IF token \in {Absent, Empty} THEN p ELSE token]
  /\ Goto(p, "openToken")
  /\ UNCHANGED <<files, mode, conf, mine, history, faults>>

OpenTokenIfAbsent(p) ==
  /\ pc[p] = "openToken"
  /\ IF token = Absent THEN token' = Empty /\ Goto(p, "writeToken")
                       ELSE token' = token /\ Goto(p, "openJson")
  /\ current' = current \cup {tok[p]}
  /\ UNCHANGED <<key, pub, json, mode, conf, mine, tok, overlap, race, blind, faults>>

OpenToken(p) ==
  /\ pc[p] = "openToken"
  /\ token' = Empty /\ Goto(p, "writeToken")
  /\ current' = current \cup {tok[p]}
  /\ UNCHANGED <<key, pub, json, mode, conf, mine, tok, overlap, race, blind, faults>>

WriteToken(p) ==
  /\ pc[p] = "writeToken"
  /\ token' = tok[p] /\ Goto(p, "openJson")
  /\ UNCHANGED <<key, pub, json, mode, conf, mine, tok, history, faults>>

OpenJson(p) ==
  /\ pc[p] = "openJson"
  /\ json' = Empty /\ Goto(p, "writeJson")
  /\ UNCHANGED <<key, pub, token, mode, conf, mine, tok, history, faults>>

WriteJson(p) ==
  /\ pc[p] = "writeJson"
  /\ json' = [pub |-> mine[p], token |-> tok[p]] /\ Goto(p, "done")
  /\ current' = {tok[p]}
  /\ UNCHANGED <<key, pub, token, mode, conf, mine, tok, overlap, race, blind, faults>>

-----------------------------------------------------------------------------
(* Faults *)

Fault == faults < MaxFaults /\ faults' = faults + 1

Kill(p) ==
  /\ Running(p) /\ Fault /\ Goto(p, "killed")
  /\ UNCHANGED <<files, mode, conf, mine, tok, history>>

\* exists() is false on any error of the stat it makes, not only for a missing file.
StatError(p) ==
  /\ pc[p] = "exists" /\ Fault
  /\ Goto(p, "open")
  /\ blind' = (blind \/ key \in Keys)
  /\ UNCHANGED <<files, mode, conf, mine, tok, current, overlap, race>>

\* An open or a write fails and the error is returned, except that the load
\* branch ignores what happens to the public key file.  A process is in the
\* create branch when it holds the key it generated.
IOError(p) ==
  /\ pc[p] \in {"read", "open", "write", "openPub", "writePub", "openToken",
                "writeToken", "openJson", "writeJson"}
  /\ Fault
  /\ Goto(p, IF pc[p] \in {"openPub", "writePub"} /\ mine[p] # p THEN AfterPub(p)
                                                                  ELSE "failed")
  /\ UNCHANGED <<files, mode, conf, mine, tok, history>>

\* A saved token that cannot be read counts as absent.
ReadError(p) ==
  /\ pc[p] \in {"readJson", "readToken"} /\ conf[p] = None /\ Fault
  /\ IF pc[p] = "readJson"
       THEN Goto(p, "readToken") /\ tok' = tok
       ELSE Goto(p, "openToken") /\ tok' = [tok EXCEPT ![p] = p]
  /\ UNCHANGED <<files, mode, conf, mine, history>>

AllEnded == (\A p \in Proc : pc[p] \in Ended) /\ UNCHANGED vars

Next ==
  \/ \E p \in Proc :
       \/ Start(p) \/ KeyExists(p) \/ ReadKey(p) \/ OpenKey(p) \/ WriteKey(p)
       \/ OpenPub(p) \/ WritePub(p) \/ ReadJson(p) \/ ReadToken(p)
       \/ OpenToken(p) \/ WriteToken(p) \/ OpenJson(p) \/ WriteJson(p)
       \/ Kill(p) \/ StatError(p) \/ IOError(p) \/ ReadError(p)
  \/ AllEnded

Spec == Init /\ [][Next]_vars

-----------------------------------------------------------------------------
(* Properties *)

Done(p) == pc[p] = "done"
Quiet == \A p \in Proc : ~ Running(p)

\* All invocations that complete use the same private key, whatever was killed or
\* failed between them, with two exceptions.  Processes that make the first key at the
\* same time, with no lock between them, may end with two.  And a process whose stat of
\* an existing key fails takes it for missing and replaces it (keys.rs:314,267-272).
\* Any other error of load_or_generate_keypair leaves the key it finds.
KeyStable ==
  ~ race /\ ~ blind => \A p, q \in Proc : Done(p) /\ Done(q) => mine[p] = mine[q]

\* A start that is given no token finds a saved one as soon as a start has completed:
\* the token of the last completed start or of one interrupted since, never a new one.
\* relay.json and relay.token are rewritten one after the other and read one after the
\* other (config.rs:181-211), so that one fault spoils at most one of them.  A second
\* fault may spoil the other; processes that write at the same time, either token.
TokenKept ==
  [][~ overlap /\ faults' <= 1 => \A p \in Proc :
        tok'[p] \notin {tok[p], None} /\ conf[p] = None
        /\ (\E q \in Proc : Done(q) /\ mode[q] = "credentials")
        => tok'[p] \in current]_vars

\* A start that completes leaves the files saying what it uses, even when an earlier
\* one was killed half way: relay.token and relay.json hold its token, relay.key and
\* relay.json its key (config.rs:125, keys.rs:324,337-338).  Again when no two run at once.
RestartHeals ==
  [][~ overlap => \A p \in Proc :
        ~ Done(p) /\ Done(p)' /\ mode[p] = "credentials"
        => /\ token' = tok[p] /\ key' = mine[p]
           /\ json' = [pub |-> key', token |-> token']]_vars

\* Once no invocation is running and none has failed, the public key that was written
\* belongs to the private key on disk, in relay.pub and in relay.json, and no file is
\* left empty ("Ensure public key file is kept in sync", keys.rs:323), however
\* invocations overlap once there is a key.
PublishedInSync ==
  Quiet /\ faults = 0 /\ ~ race /\ (\E p \in Proc : Done(p))
  => /\ pub = key /\ Empty \notin {key, pub, token, json}
     /\ json # Absent => json.pub = key

=============================================================================
