--------------------------------- MODULE Login ---------------------------------
(***************************************************************************)
(* establish_session() of src/ssh/mod.rs, for connections that run at the  *)
(* same time: keys, host key check (src/ssh/client.rs, known_hosts.rs),    *)
(* public keys, stored password, prompt, the offer to save it, and the     *)
(* same again through a jump host.  The connections share known_hosts and  *)
(* the keychain, which nothing locks between a check and what follows it.  *)
(* Servers are external: which key they show, and what they answer.        *)
(***************************************************************************)
EXTENDS Integers, FiniteSets

CONSTANTS
  Conns,
  Target,      \* Target[c]: host of c
  Jump,        \* Jump[c]: its jump host, or None
  Identity,    \* connections whose bookmark names an identity file
  Mux,         \* connections made with non_interactive set
  Shows,       \* Shows[h]: host keys h may show
  CheckMode,   \* "strict", "accept-new" or "off"
  InitHosts,   \* entries of known_hosts at first: <<host, key, revoked>>
  InitKc,      \* keychain at first, by name
  Good,        \* Good[h]: password h accepts
  Passwords,   \* passwords a user types
  Edited,      \* names sshore password set and remove change meanwhile
  None

Hosts == {Target[c] : c \in Conns} \cup ({Jump[c] : c \in Conns} \ {None})
JumpName(host) == <<"__jump", host>>
Names == {<<"bookmark", Target[c]>> : c \in Conns} \cup {JumpName(h) : h \in Hosts}

ASSUME LoginAssumption ==
  /\ Identity \subseteq Conns /\ Mux \subseteq Conns
  /\ CheckMode \in {"strict", "accept-new", "off"}
  /\ None \notin Passwords /\ InitKc \in [Names -> Passwords \cup {None}]
  /\ \A e \in InitHosts : e = <<e[1], e[2], e[3]>> /\ e[3] \in BOOLEAN

VARIABLES
  conn,    \* conn[c]: [pc, hop, keys, read]: keys were loaded, password in hand
  kh,      \* known_hosts, as a set of entries
  kc,      \* keychain
  shown,   \* history: shown[c][hop], the key the server showed
  refused, \* history: <<host, stored password>> a server has refused
  blind    \* history: names whose entry was deleted by someone who had read another

stores == <<kh, kc>>
lvars  == <<conn, stores, shown, refused, blind>>

NoKeys == [hop \in {"jump", "target"} |-> None]
Fresh == [pc |-> "idle", hop |-> "target", keys |-> FALSE, read |-> None]

LoginInit ==
  /\ conn = [c \in Conns |-> Fresh] /\ kh = InitHosts /\ kc = InitKc
  /\ shown = [c \in Conns |-> NoKeys]
  /\ refused = {} /\ blind = {}

Host(c) == IF conn[c].hop = "jump" THEN Jump[c] ELSE Target[c]
Name(c) == IF conn[c].hop = "jump" THEN JumpName(Jump[c]) ELSE <<"bookmark", Target[c]>>

At(c, pc) == conn[c].pc = pc
Goto(c, pc) == conn' = [conn EXCEPT ![c].pc = pc]
Drop(c, pc) == conn' = [conn EXCEPT ![c].pc = pc, ![c].read = None]

\* load_keys(): identity file, perhaps after its passphrase, and the default keys.
LoadKeys(c) ==
  /\ At(c, "keys")
  /\ \E found \in BOOLEAN :
       conn' = [conn EXCEPT ![c].pc = "connect", ![c].keys = found,
                            ![c].hop = IF Jump[c] = None THEN "target" ELSE "jump"]
  /\ UNCHANGED <<stores, shown, refused, blind>>

\* connect_direct(), or a step of connect_through_proxy(); the timeout is a failure.
Connect(c) ==
  /\ At(c, "connect") /\ (Goto(c, "hostkey") \/ Goto(c, "failed"))
  /\ UNCHANGED <<stores, shown, refused, blind>>

\* MUTANT of HostKeyStatus: the first entry of the key decides.
HostKeyStatusVariant(entries, host, key) ==
  IF \E e \in entries : e[1] = host /\ e[2] = key THEN "known"
  ELSE IF \E e \in entries : e[1] = host THEN "changed" ELSE "unknown"

\* check_host_key_in_content(): every entry is read before the decision.
HostKeyStatus(entries, host, key) ==
  LET of == {e \in entries : e[1] = host}
  IN  IF \E e \in of : e[2] = key /\ e[3] THEN "revoked"
      ELSE IF \E e \in of : e[2] = key THEN "known"
      ELSE IF of # {} THEN "changed" ELSE "unknown"

\* check_server_key()
CheckServerKey(c) == \E key \in Shows[Host(c)] :
  LET status == HostKeyStatus(kh, Host(c), key)
  IN /\ At(c, "hostkey") /\ shown' = [shown EXCEPT ![c][conn[c].hop] = key]
     /\ \/ (CheckMode = "off" \/ status = "known") /\ Goto(c, "pubkey") /\ UNCHANGED kh
        \/ /\ CheckMode = "accept-new" /\ status = "unknown"
           /\ Goto(c, "pubkey") /\ kh' = kh \cup {<<Host(c), key, FALSE>>}
        \/ CheckMode = "strict" /\ status = "unknown" /\ Goto(c, "confirm") /\ UNCHANGED kh
        \/ CheckMode # "off" /\ status \in {"changed", "revoked"} /\ Goto(c, "failed") /\ UNCHANGED kh
     /\ UNCHANGED <<kc, refused, blind>>

\* The question of strict mode; add_host_key() appends without another look.
ConfirmHostKey(c) ==
  /\ At(c, "confirm")
  /\ \/ Goto(c, "pubkey") /\ kh' = kh \cup {<<Host(c), shown[c][conn[c].hop], FALSE>>}
     \/ Goto(c, "failed") /\ UNCHANGED kh
  /\ UNCHANGED <<kc, shown, refused, blind>>

Accepted(c) == Drop(c, IF conn[c].hop = "jump" THEN "forward" ELSE "up")

\* The keys are tried in turn; an identity file excludes passwords for the target only.
PublicKeys(c) ==
  /\ At(c, "pubkey")
  /\ \/ conn[c].keys /\ Accepted(c)
     \/ Goto(c, IF conn[c].keys /\ c \in Identity /\ conn[c].hop = "target"
                THEN "failed" ELSE "keychain")
  /\ UNCHANGED <<stores, shown, refused, blind>>

ReadKeychain(c) ==
  /\ At(c, "keychain")
  /\ \E got \in {kc[Name(c)], None} :   \* a keychain error reads like no entry
       conn' = [conn EXCEPT ![c].read = got, ![c].pc = IF got = None THEN "prompt" ELSE "stored"]
  /\ UNCHANGED <<stores, shown, refused, blind>>

\* MUTANT of StoredVerdict: an error counts as a rejection.
StoredVerdictVariant(c) ==
  /\ At(c, "stored") /\ Goto(c, "prompt") /\ kc' = [kc EXCEPT ![Name(c)] = None]
  /\ UNCHANGED <<kh, shown, refused, blind>>

\* authenticate_password() with the stored one; if it is refused the entry goes, by name.
StoredVerdict(c) ==
  /\ At(c, "stored")
  /\ \/ conn[c].read = Good[Host(c)] /\ Accepted(c) /\ UNCHANGED <<kc, refused, blind>>
     \/ /\ conn[c].read # Good[Host(c)] /\ Drop(c, "prompt")
        /\ refused' = refused \cup {<<Host(c), conn[c].read>>}
        /\ \/ /\ kc' = [kc EXCEPT ![Name(c)] = None]
              /\ blind' = IF kc[Name(c)] \in {None, conn[c].read} THEN blind ELSE blind \cup {Name(c)}
           \/ UNCHANGED <<kc, blind>>
     \/ Drop(c, "prompt") /\ UNCHANGED <<kc, refused, blind>>
  /\ UNCHANGED <<kh, shown>>

\* prompt_password(): only the target's login knows non_interactive.
PromptPassword(c) ==
  /\ At(c, "prompt")
  /\ \/ /\ c \notin Mux \/ conn[c].hop = "jump"
        /\ \E pw \in Passwords : conn' = [conn EXCEPT ![c].pc = "typed", ![c].read = pw]
     \/ Goto(c, "failed")
  /\ UNCHANGED <<stores, shown, refused, blind>>

TypedVerdict(c) ==
  /\ At(c, "typed")
  /\ \/ conn[c].read = Good[Host(c)] /\ Goto(c, "offer")
     \/ Drop(c, "failed")
  /\ UNCHANGED <<stores, shown, refused, blind>>

\* offer_save_password(), offer_save_jump_password(): not if something is stored.
OfferSave(c) ==
  /\ At(c, "offer") /\ Accepted(c)
  /\ \/ kc[Name(c)] = None /\ kc' = [kc EXCEPT ![Name(c)] = conn[c].read]
     \/ UNCHANGED kc
  /\ UNCHANGED <<kh, shown, refused, blind>>

\* The direct-tcpip channel through the jump host.
OpenForward(c) ==
  /\ At(c, "forward")
  /\ \/ conn' = [conn EXCEPT ![c].pc = "connect", ![c].hop = "target"]
     \/ Goto(c, "failed")
  /\ UNCHANGED <<stores, shown, refused, blind>>

LoginStep(c) == \/ LoadKeys(c) \/ Connect(c) \/ CheckServerKey(c) \/ ConfirmHostKey(c)
                \/ PublicKeys(c) \/ ReadKeychain(c) \/ StoredVerdict(c)
                \/ PromptPassword(c) \/ TypedVerdict(c) \/ OfferSave(c) \/ OpenForward(c)

\* sshore password set and remove, from another terminal.
PasswordSet == \E n \in Edited, pw \in Passwords :
  /\ kc[n] # pw /\ kc' = [kc EXCEPT ![n] = pw]
  /\ UNCHANGED <<conn, kh, shown, refused, blind>>

PasswordRemove == \E n \in Edited :
  /\ kc[n] # None /\ kc' = [kc EXCEPT ![n] = None]
  /\ UNCHANGED <<conn, kh, shown, refused, blind>>

----------------------------------------------------------------------------
\* A session is up only if every hop showed a key that is on file for it and was never
\* revoked, unless checking is off; both hops of a jump are checked.
UpOnlyTrusted == \A c \in Conns : At(c, "up") /\ CheckMode # "off" =>
  \A hop \in {"jump", "target"} :
    LET host == IF hop = "jump" THEN Jump[c] ELSE Target[c]
    IN  host # None => /\ <<host, shown[c][hop], FALSE>> \in kh
                       /\ <<host, shown[c][hop], TRUE>> \notin kh

\* A login removes a stored password only after the server refused it, or, by name and
\* unseen, one that was stored after the login had read the entry: then it is in "blind".
DeletedOnlyRefused == [][\A n \in Names, c \in Conns :
   kc[n] # None /\ kc'[n] = None /\ conn'[c] # conn[c] =>
     \/ n \in blind'
     \/ \E h \in Hosts : n[2] = h /\ <<h, kc[n]>> \in refused']_lvars

================================================================================
