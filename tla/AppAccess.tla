------------------------------- MODULE AppAccess -------------------------------
(***************************************************************************)
(* Who may call the server: the inference key and, with a dashboard, the   *)
(* admin key, each in a private file and in the server's memory; their     *)
(* rotation; the server's start, which may find a key written into         *)
(* server.json; and the sessions with which a browser opens applications.  *)
(* The server may die between any two writes.                              *)
(***************************************************************************)
EXTENDS Naturals, FiniteSets

CONSTANTS Keys,        \* bound: keys that can be generated
          Tokens,      \* session tokens
          MaxSessions, \* 1024
          Nothing

VARIABLES key_file,  \* the inference and admin key in their files
          inline_key,\* api_key in server.json, Nothing if it names files
          memory,    \* the keys of the running server
          boot,      \* how far it has started
          rotating,  \* a rotation between its write and its answer
          told,      \* the keys the operator holds
          retired,   \* those whose replacement the operator was told
          sessions,  \* AppAccess::sessions
          passing    \* the key behind the application request under way

accessVars == <<key_file, inline_key, memory, boot, rotating, told, retired,
                sessions, passing>>

Kinds == {"inference", "admin"}

Used == {key_file[k] : k \in Kinds} \cup {inline_key} \cup retired
          \cup {told[k] : k \in Kinds} \cup {memory[k] : k \in Kinds}
generate_api_key == Keys \ Used

\* Setup has written a key, or the operator has put one into server.json; with
\* a dashboard there will be an admin key.
AccessInit ==
  /\ \E k \in Keys, at \in {"file", "inline"} :
       /\ key_file = [inference |-> IF at = "file" THEN k ELSE Nothing, admin |-> Nothing]
       /\ inline_key = IF at = "inline" THEN k ELSE Nothing
       /\ told = [inference |-> k, admin |-> Nothing]
  /\ memory = [inference |-> Nothing, admin |-> Nothing]
  /\ boot = "down"
  /\ rotating = Nothing
  /\ retired = {}
  /\ sessions = [t \in Tokens |-> Nothing]
  /\ passing = Nothing

-----------------------------------------------------------------------------
(* run_server and the constructor, with separate administration            *)

\* A key given inline is written to the inference key's file.
ReadKey ==
  /\ boot = "down"
  /\ boot' = "admin"
  /\ LET key == IF inline_key = Nothing THEN key_file["inference"] ELSE inline_key
     IN /\ memory' = [memory EXCEPT !["inference"] = key]
        /\ key_file' = [key_file EXCEPT !["inference"] = key]
  /\ UNCHANGED <<inline_key, rotating, told, retired, sessions, passing>>

\* The admin key's file is created once, then read.
ReadAdminKey ==
  /\ boot = "admin"
  /\ boot' = "config"
  /\ \E k \in IF key_file["admin"] = Nothing THEN generate_api_key ELSE {key_file["admin"]} :
       /\ key_file' = [key_file EXCEPT !["admin"] = k]
       /\ memory' = [memory EXCEPT !["admin"] = k]
  /\ UNCHANGED <<inline_key, rotating, told, retired, sessions, passing>>

\* server.json names the files from now on, never a key.
Persist ==
  /\ boot = "config"
  /\ boot' = "up"
  /\ inline_key' = Nothing
  /\ told' = [told EXCEPT !["admin"] = memory["admin"]]  \* read from its file
  /\ UNCHANGED <<key_file, memory, rotating, retired, sessions, passing>>

\* The server stops or dies: sessions were in its memory.
GoDown ==
  /\ boot # "down"
  /\ boot' = "down"
  /\ memory' = [memory EXCEPT !["inference"] = Nothing, !["admin"] = Nothing]
  \* a rotation that got no answer is looked up in the private file
  /\ told' = IF rotating = Nothing THEN told
             ELSE [told EXCEPT ![rotating.kind] = key_file[rotating.kind]]
  /\ rotating' = Nothing
  /\ sessions' = [t \in Tokens |-> Nothing]
  /\ passing' = Nothing
  /\ UNCHANGED <<key_file, inline_key, retired>>

-----------------------------------------------------------------------------
allows(key, administrative) ==
  /\ boot = "up"
  /\ key # Nothing
  /\ key = memory["admin"] \/ (~administrative /\ key = memory["inference"])

\* rotate holds the mutex: the file is replaced, then the key in memory ...
WriteKey(kind) ==
  /\ rotating = Nothing
  /\ allows(told["admin"], TRUE)
  /\ \E k \in generate_api_key :
       /\ key_file' = [key_file EXCEPT ![kind] = k]
       /\ rotating' = [kind |-> kind, key |-> k]
  /\ UNCHANGED <<inline_key, memory, boot, told, retired, sessions, passing>>

\* ... and the answer tells the operator.
Rotated ==
  /\ boot = "up"
  /\ rotating # Nothing
  /\ memory' = [memory EXCEPT ![rotating.kind] = rotating.key]
  /\ told' = [told EXCEPT ![rotating.kind] = rotating.key]
  /\ retired' = retired \cup {told[rotating.kind]}
  /\ rotating' = Nothing
  /\ UNCHANGED <<key_file, inline_key, boot, sessions, passing>>

-----------------------------------------------------------------------------
(* Application sessions; allows waits for the mutex of a rotation          *)

Live == {t \in Tokens : sessions[t] # Nothing}

Open(t) ==
  LET kept == [u \in Tokens |-> IF u \in Live /\ sessions[u].expired THEN Nothing
                                ELSE sessions[u]]
  IN /\ rotating = Nothing
     /\ allows(told["admin"], TRUE)
     /\ Cardinality({u \in Tokens : kept[u] # Nothing}) < MaxSessions
     /\ kept[t] = Nothing
     /\ sessions' = [kept EXCEPT ![t] = [key |-> told["admin"], expired |-> FALSE]]
     /\ UNCHANGED <<key_file, inline_key, memory, boot, rotating, told, retired, passing>>

Logout(key) ==
  /\ rotating = Nothing
  /\ allows(key, TRUE)
  /\ sessions' = [t \in Tokens |-> IF t \in Live /\ sessions[t].key = key THEN Nothing
                                   ELSE sessions[t]]
  /\ UNCHANGED <<key_file, inline_key, memory, boot, rotating, told, retired, passing>>

Expire(t) ==
  /\ t \in Live
  /\ ~sessions[t].expired
  /\ sessions' = [sessions EXCEPT ![t].expired = TRUE]
  /\ UNCHANGED <<key_file, inline_key, memory, boot, rotating, told, retired, passing>>

\* Mutant: a session is good until it expires.
AdmittedUntilExpiry(t) == ~sessions[t].expired

\* app_proxy: the key behind the session must still be the admin key.
Admitted(t) == ~sessions[t].expired /\ allows(sessions[t].key, TRUE)
Pass(t) ==
  /\ t \in Live
  /\ rotating = Nothing
  /\ passing = Nothing
  /\ Admitted(t)
  /\ passing' = sessions[t].key
  /\ UNCHANGED <<key_file, inline_key, memory, boot, rotating, told, retired, sessions>>

\* The answer may stream on for as long as it takes.
Passed ==
  /\ passing # Nothing
  /\ passing' = Nothing
  /\ UNCHANGED <<key_file, inline_key, memory, boot, rotating, told, retired, sessions>>

AccessNext ==
  \/ ReadKey \/ ReadAdminKey \/ Persist \/ GoDown \/ Rotated \/ Passed
  \/ \E k \in Kinds : WriteKey(k)
  \/ \E t \in Tokens : Open(t) \/ Expire(t) \/ Pass(t)
  \/ \E k \in Keys : Logout(k)

AccessSpec == AccessInit /\ [][AccessNext]_accessVars

-----------------------------------------------------------------------------
AccessTypeOK ==
  /\ key_file \in [Kinds -> Keys \cup {Nothing}]
  /\ inline_key \in Keys \cup {Nothing}
  /\ memory \in [Kinds -> Keys \cup {Nothing}]
  /\ told \in [Kinds -> Keys \cup {Nothing}]
  /\ boot \in {"down", "admin", "config", "up"}
  /\ retired \subseteq Keys \cup {Nothing}

\* With separate administration, whatever was lost and whenever the server was
\* restarted: the keys that the operator holds are the ones that open the
\* server, each what it is for, and none that was replaced opens it again -
\* not even one that server.json used to hold.
KeysHold ==
  boot = "up" /\ rotating = Nothing =>
    /\ allows(told["inference"], FALSE) /\ ~allows(told["inference"], TRUE)
    /\ allows(told["admin"], FALSE) /\ allows(told["admin"], TRUE)
    /\ \A k \in retired : ~allows(k, FALSE)

\* A session opened under an admin key that was replaced lets no new request
\* through to an application, though one that is under way goes on.
SessionsRevoked == [][passing' # Nothing /\ passing = Nothing => passing' \notin retired]_accessVars

AccessRevoked == []KeysHold /\ SessionsRevoked
=============================================================================
