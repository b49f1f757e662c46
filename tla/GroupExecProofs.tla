---------------------------- MODULE GroupExecProofs ----------------------------
(***************************************************************************)
(* Proofs about Login and GroupExec, for every set of connections, hosts,  *)
(* keys and jump hosts, every known_hosts file and every limit.            *)
(***************************************************************************)
EXTENDS GroupExec, TLAPS

Hops == {"jump", "target"}
PCs  == {"idle", "keys", "connect", "hostkey", "confirm", "pubkey", "keychain", "stored",
         "prompt", "typed", "offer", "forward", "up", "exec", "failed", "finished"}
AnyKey == (UNION {Shows[h] : h \in Hosts}) \cup {None}
Record == [pc : PCs, hop : Hops, keys : BOOLEAN, read : Passwords \cup {None}]

\* Where the host key of the present hop has been checked, and where the jump
\* host, if there is one, is behind the connection.
Checked == {"pubkey", "keychain", "stored", "prompt", "typed", "offer"}
Beyond  == {"connect", "hostkey", "confirm", "up"} \cup Checked

Types ==
  /\ conn \in [Conns -> Record]
  /\ shown \in [Conns -> [Hops -> AnyKey]]
  /\ kc \in [Names -> Passwords \cup {None}]
  /\ \A e \in kh : e = <<e[1], e[2], e[3]>> /\ e[3] \in BOOLEAN

HostOf(c, hop) == IF hop = "jump" THEN Jump[c] ELSE Target[c]
Spared(c, hop)  == <<HostOf(c, hop), shown[c][hop], TRUE>> \notin kh
Trusted(c, hop) == <<HostOf(c, hop), shown[c][hop], FALSE>> \in kh /\ Spared(c, hop)

\* A connection has only got past the hops whose keys are trusted.
ConnInv(c) ==
  /\ conn[c].hop = "jump" => Jump[c] # None
  /\ conn[c].pc = "up" => conn[c].hop = "target"
  /\ conn[c].pc = "forward" => conn[c].hop = "jump"
  /\ CheckMode # "off" =>
       /\ conn[c].pc = "confirm" => Spared(c, conn[c].hop)
       /\ conn[c].pc \in Checked \cup {"forward", "up"} => Trusted(c, conn[c].hop)
       /\ conn[c].pc \in Beyond /\ conn[c].hop = "target" /\ Jump[c] # None =>
            Trusted(c, "jump")

IInv == Types /\ \A c \in Conns : ConnInv(c)

\* Logins add entries to known_hosts, none of which revokes a key.
Grows == kh \subseteq kh' /\ \A h, k : <<h, k, TRUE>> \in kh' => <<h, k, TRUE>> \in kh

-----------------------------------------------------------------------------
\* Before anyone connects, no host has been shown a key and nothing was refused.
LEMMA InitInv == Init => IInv
<1> SUFFICES ASSUME Init PROVE IInv
  OBVIOUS
<1> USE DEF Init, LoginInit
<1>1. Fresh \in Record /\ Fresh.pc = "idle" /\ Fresh.hop = "target"
  BY DEF Fresh, Record, PCs, Hops
<1>2. NoKeys \in [Hops -> AnyKey]
  <2>1. None \in AnyKey
    BY DEF AnyKey
  <2>2. QED
    BY <2>1 DEF NoKeys, Hops
<1>3. Types
  BY <1>1, <1>2, LoginAssumption DEF Types
<1>4. \A c \in Conns : ConnInv(c)
  BY <1>1 DEF ConnInv, Checked, Beyond
<1>5. QED
  BY <1>3, <1>4 DEF IInv

\* What a login does leaves the other connections as they were.
LEMMA OthersKeep ==
  ASSUME NEW d \in Conns, ConnInv(d), conn'[d] = conn[d], shown'[d] = shown[d], Grows
  PROVE  ConnInv(d)'
  BY DEF ConnInv, Grows, Spared, Trusted, HostOf

\* A step that asks for no host key and adds none.
LEMMA MoveInv ==
  ASSUME IInv, NEW c \in Conns, NEW r \in Record,
         conn' = [conn EXCEPT ![c] = r], UNCHANGED <<kh, shown>>,
         kc' \in [Names -> Passwords \cup {None}],
         r.hop = conn[c].hop, r.pc # "confirm",
         r.pc \in Checked \cup {"forward", "up"} => conn[c].pc \in Checked,
         r.pc \in Beyond => conn[c].pc \in Beyond,
         r.pc = "up" => r.hop = "target", r.pc = "forward" => r.hop = "jump"
  PROVE  IInv'
<1>1. Types'
  BY DEF IInv, Types
<1>2. conn'[c] = r /\ \A d \in Conns \ {c} : conn'[d] = conn[d]
  BY DEF IInv, Types
<1>3. Grows
  BY DEF Grows
<1>4. \A d \in Conns \ {c} : ConnInv(d)'
  BY <1>2, <1>3, OthersKeep DEF IInv
<1>5. ConnInv(c)'
  <2>1. \A hop : Trusted(c, hop)' <=> Trusted(c, hop)
    BY DEF Spared, Trusted, HostOf
  <2>2. conn'[c].hop = conn[c].hop /\ conn'[c].pc = r.pc
    BY <1>2
  <2>3. Trusted(c, conn[c].hop)' <=> Trusted(c, conn[c].hop)
    <3>1. HostOf(c, conn[c].hop)' = HostOf(c, conn[c].hop)
      BY <2>2 DEF HostOf
    <3>2. (shown[c][conn[c].hop])' = shown[c][conn[c].hop]
      BY <2>2
    <3>3. kh' = kh
      OBVIOUS
    <3> DEFINE h == HostOf(c, conn[c].hop)
               k == shown[c][conn[c].hop]
    <3>4. h' = h /\ k' = k
      BY <3>1, <3>2
    <3>5. /\ Trusted(c, conn[c].hop) <=> <<h, k, FALSE>> \in kh /\ <<h, k, TRUE>> \notin kh
          /\ Trusted(c, conn[c].hop)' <=> <<h', k', FALSE>> \in kh' /\ <<h', k', TRUE>> \notin kh'
      BY DEF Trusted, Spared
    <3> HIDE DEF h, k
    <3>6. QED
      BY <3>3, <3>4, <3>5
  <2>4. ConnInv(c)
    BY DEF IInv
  <2>5. QED
    BY <2>1, <2>2, <2>3, <2>4 DEF ConnInv
<1>6. QED
  BY <1>1, <1>4, <1>5 DEF IInv

\* Going elsewhere, with or without the password in hand, and getting past a
\* host that has accepted the login.
LEMMA GotoFacts ==
  ASSUME Types, NEW c \in Conns, NEW to \in PCs
  PROVE  /\ Goto(c, to) => \E r \in Record : /\ conn' = [conn EXCEPT ![c] = r]
                                             /\ r.pc = to /\ r.hop = conn[c].hop
         /\ Drop(c, to) => \E r \in Record : /\ conn' = [conn EXCEPT ![c] = r]
                                             /\ r.pc = to /\ r.hop = conn[c].hop
<1>1. conn[c] \in Record
  BY DEF Types
<1>2. CASE Goto(c, to)
  <2> DEFINE r == [conn[c] EXCEPT !.pc = to]
  <2>1. r \in Record /\ r.pc = to /\ r.hop = conn[c].hop
    BY <1>1 DEF Record
  <2>2. conn' = [conn EXCEPT ![c] = r]
    BY <1>2 DEF Goto
  <2>3. QED
    BY <1>2, <2>1, <2>2
<1>3. CASE Drop(c, to)
  <2> DEFINE r == [conn[c] EXCEPT !.pc = to, !.read = None]
  <2>1. r \in Record /\ r.pc = to /\ r.hop = conn[c].hop
    BY <1>1 DEF Record
  <2>2. conn' = [conn EXCEPT ![c] = r]
    BY <1>3 DEF Drop
  <2>3. QED
    BY <1>3, <2>1, <2>2
<1>4. QED
  BY <1>2, <1>3

\* A move from a place past the check of the present hop.
LEMMA PassInv ==
  ASSUME IInv, NEW c \in Conns, NEW to \in {"failed", "exec", "keychain", "prompt", "offer", "stored", "typed"},
         conn[c].pc \in Checked \/ to \in {"failed", "exec"},
         Goto(c, to) \/ Drop(c, to), UNCHANGED <<kh, shown>>,
         kc' \in [Names -> Passwords \cup {None}]
  PROVE  IInv'
<1>1. PICK r \in Record : /\ conn' = [conn EXCEPT ![c] = r]
                          /\ r.pc = to /\ r.hop = conn[c].hop
  BY GotoFacts DEF IInv, PCs
<1>2. to \in Checked => conn[c].pc \in Checked
  BY DEF Checked
<1>3. to \in Beyond => conn[c].pc \in Beyond
  BY <1>2 DEF Beyond, Checked
<1>4. QED
  BY <1>1, <1>2, <1>3, MoveInv

\* An accepted key takes a connection one hop further, and the key is on file.
LEMMA AcceptedInv ==
  ASSUME IInv, NEW c \in Conns, conn[c].pc \in Checked, Accepted(c), UNCHANGED <<kh, shown>>,
         kc' \in [Names -> Passwords \cup {None}]
  PROVE  IInv'
<1> DEFINE to == IF conn[c].hop = "jump" THEN "forward" ELSE "up"
<1>1. to \in PCs /\ Drop(c, to)
  BY DEF Accepted, PCs
<1> HIDE DEF to
<1>2. PICK r \in Record : /\ conn' = [conn EXCEPT ![c] = r]
                          /\ r.pc = to /\ r.hop = conn[c].hop
  BY <1>1, GotoFacts DEF IInv
<1>3. conn[c].hop \in Hops
  BY DEF IInv, Types, Record
<1>4. (to = "forward" /\ r.hop = "jump") \/ (to = "up" /\ r.hop = "target")
  BY <1>2, <1>3 DEF to, Hops
<1>5. conn[c].pc \in Beyond
  BY DEF Beyond
<1>6. QED
  BY <1>2, <1>4, <1>5, MoveInv

-----------------------------------------------------------------------------
(* The steps of a login                                                    *)

\* A connection's host and the name of its password are those of its hop.
LEMMA NameFacts ==
  ASSUME IInv, NEW c \in Conns
  PROVE  Host(c) \in Hosts /\ Name(c) \in Names /\ Host(c) = HostOf(c, conn[c].hop)
  BY DEF IInv, ConnInv, Host, Name, Hosts, Names, HostOf

\* Reading the stored password notes how often the entry had been written.
LEMMA LoadKeysInv == ASSUME IInv, NEW c \in Conns, LoadKeys(c) PROVE IInv'
<1>1. PICK found \in BOOLEAN :
        conn' = [conn EXCEPT ![c] = [@ EXCEPT !.pc = "connect", !.keys = found,
                                              !.hop = IF Jump[c] = None THEN "target" ELSE "jump"]]
  BY DEF LoadKeys
<1> DEFINE r == [conn[c] EXCEPT !.pc = "connect", !.keys = found,
                                !.hop = IF Jump[c] = None THEN "target" ELSE "jump"]
<1>2. conn[c] \in Record
  BY DEF IInv, Types
<1>3. /\ r \in Record /\ r.pc = "connect"
      /\ r.hop = IF Jump[c] = None THEN "target" ELSE "jump"
  BY <1>2 DEF Record, PCs, Hops
<1>4. conn' = [conn EXCEPT ![c] = r] /\ UNCHANGED <<kc, kh, shown>>
  BY <1>1 DEF LoadKeys, stores
<1> HIDE DEF r
<1>5. Types'
  BY <1>3, <1>4 DEF IInv, Types
<1>6. conn'[c] = r /\ \A d \in Conns \ {c} : conn'[d] = conn[d]
  BY <1>4 DEF IInv, Types
<1>7. ConnInv(c)'
  BY <1>3, <1>6 DEF ConnInv, Checked
<1>8. \A d \in Conns \ {c} : ConnInv(d)'
  BY <1>4, <1>6, OthersKeep DEF IInv, Grows
<1>9. QED
  BY <1>5, <1>7, <1>8 DEF IInv

\* The channel through the jump host opens after that hop was passed, or not at all.
LEMMA OpenForwardInv == ASSUME IInv, NEW c \in Conns, OpenForward(c) PROVE IInv'
<1>1. conn[c] \in Record /\ conn[c].pc = "forward" /\ ConnInv(c) /\ UNCHANGED <<kc, kh, shown>>
  BY DEF IInv, Types, OpenForward, At, stores
<1>2. CASE Goto(c, "failed")
  <2>1. kc' \in [Names -> Passwords \cup {None}]
    BY <1>1 DEF IInv, Types
  <2>2. QED
    BY <1>1, <1>2, <2>1, PassInv
<1>3. CASE conn' = [conn EXCEPT ![c] = [@ EXCEPT !.pc = "connect", !.hop = "target"]]
  <2> DEFINE r == [conn[c] EXCEPT !.pc = "connect", !.hop = "target"]
  <2>1. r \in Record /\ r.pc = "connect" /\ r.hop = "target"
    BY <1>1 DEF Record, PCs, Hops
  <2>2. conn' = [conn EXCEPT ![c] = r]
    BY <1>3
  <2> HIDE DEF r
  <2>3. Types'
    BY <1>1, <2>1, <2>2 DEF IInv, Types
  <2>4. conn'[c] = r /\ \A d \in Conns \ {c} : conn'[d] = conn[d]
    BY <2>2 DEF IInv, Types
  <2>5. CheckMode # "off" => Trusted(c, "jump")'
    BY <1>1 DEF ConnInv, Trusted, Spared, HostOf
  <2>6. ConnInv(c)'
    BY <2>1, <2>4, <2>5 DEF ConnInv, Checked
  <2>7. \A d \in Conns \ {c} : ConnInv(d)'
    BY <1>1, <2>4, OthersKeep DEF IInv, Grows
  <2>8. QED
    BY <2>3, <2>6, <2>7 DEF IInv
<1>4. QED
  BY <1>2, <1>3 DEF OpenForward

\* The status of a key that is not on file, or on file and not revoked.
LEMMA StatusFacts ==
  ASSUME Types, NEW h, NEW k
  PROVE  /\ HostKeyStatus(kh, h, k) = "known" => <<h, k, FALSE>> \in kh /\ <<h, k, TRUE>> \notin kh
         /\ HostKeyStatus(kh, h, k) = "unknown" => <<h, k, TRUE>> \notin kh
<1> DEFINE of == {e \in kh : e[1] = h}
<1>1. HostKeyStatus(kh, h, k) =
        IF \E e \in of : e[2] = k /\ e[3] THEN "revoked"
        ELSE IF \E e \in of : e[2] = k THEN "known"
        ELSE IF of # {} THEN "changed" ELSE "unknown"
  BY DEF HostKeyStatus
<1>2. <<h, k, TRUE>> \in kh => \E e \in of : e[2] = k /\ e[3]
  <2>1. <<h, k, TRUE>>[1] = h /\ <<h, k, TRUE>>[2] = k /\ <<h, k, TRUE>>[3]
    OBVIOUS
  <2>2. QED
    BY <2>1
<1>3. ASSUME NEW e \in of, e[2] = k, ~e[3] PROVE <<h, k, FALSE>> \in kh
  <2>1. e = <<e[1], e[2], e[3]>> /\ e[3] = FALSE /\ e[1] = h
    BY <1>3 DEF Types
  <2>2. QED
    BY <1>3, <2>1
<1> HIDE DEF of
<1>4. QED
  BY <1>1, <1>2, <1>3

\* A hop is passed when its key is on file, or checking is off.
LEMMA CheckServerKeyInv == ASSUME IInv, NEW c \in Conns, CheckServerKey(c) PROVE IInv'
<1> DEFINE hop == conn[c].hop
<1>1. PICK key \in Shows[Host(c)] :
        /\ At(c, "hostkey") /\ shown' = [shown EXCEPT ![c][hop] = key]
        /\ \/ (CheckMode = "off" \/ HostKeyStatus(kh, Host(c), key) = "known")
              /\ Goto(c, "pubkey") /\ UNCHANGED kh
           \/ /\ CheckMode = "accept-new" /\ HostKeyStatus(kh, Host(c), key) = "unknown"
              /\ Goto(c, "pubkey") /\ kh' = kh \cup {<<Host(c), key, FALSE>>}
           \/ CheckMode = "strict" /\ HostKeyStatus(kh, Host(c), key) = "unknown"
              /\ Goto(c, "confirm") /\ UNCHANGED kh
           \/ CheckMode # "off" /\ Goto(c, "failed") /\ UNCHANGED kh
        /\ UNCHANGED kc
  BY DEF CheckServerKey
<1>2. PICK to \in {"pubkey", "confirm", "failed"} : Goto(c, to) /\ conn'[c].pc = to
  <2>1. conn[c] \in Record /\ conn \in [Conns -> Record]
    BY DEF IInv, Types
  <2>2. \A p : Goto(c, p) => conn'[c].pc = p
    BY <2>1 DEF Goto, Record
  <2>3. QED
    BY <1>1, <2>2
<1>3. PICK r \in Record : /\ conn' = [conn EXCEPT ![c] = r]
                          /\ r.pc = to /\ r.hop = hop
  <2>1. to \in PCs /\ Types
    BY DEF PCs, IInv
  <2>2. QED
    BY <1>2, <2>1, GotoFacts
<1>4. conn'[c] = r /\ \A d \in Conns \ {c} : conn'[d] = conn[d]
  BY <1>3 DEF IInv, Types
<1>5. hop \in Hops /\ key \in AnyKey
  BY NameFacts DEF IInv, Types, Record, AnyKey
<1>6. /\ shown'[c][hop] = key
      /\ \A q \in Hops \ {hop} : shown'[c][q] = shown[c][q]
      /\ \A d \in Conns \ {c} : shown'[d] = shown[d]
      /\ shown' \in [Conns -> [Hops -> AnyKey]]
  BY <1>1, <1>5 DEF IInv, Types
<1>7. kh' = kh \/ kh' = kh \cup {<<Host(c), key, FALSE>>}
  BY <1>1
<1>8. Grows /\ (\A e \in kh' : e = <<e[1], e[2], e[3]>> /\ e[3] \in BOOLEAN)
  <2>1. kh \subseteq kh'
    BY <1>7
  <2>2. ASSUME NEW h, NEW k, <<h, k, TRUE>> \in kh' PROVE <<h, k, TRUE>> \in kh
    <3>1. <<h, k, TRUE>> # <<Host(c), key, FALSE>>
      OBVIOUS
    <3>2. QED
      BY <1>7, <2>2, <3>1
  <2>3. ASSUME NEW e \in kh' PROVE e = <<e[1], e[2], e[3]>> /\ e[3] \in BOOLEAN
    <3>1. CASE e \in kh
      BY <3>1 DEF IInv, Types
    <3>2. CASE e = <<Host(c), key, FALSE>>
      BY <3>2
    <3>3. QED
      BY <1>7, <3>1, <3>2
  <2>4. QED
    BY <2>1, <2>2, <2>3 DEF Grows
<1>9. Types'
  BY <1>1, <1>3, <1>6, <1>8 DEF IInv, Types
<1>10. CheckMode # "off" => /\ r.pc = "confirm" => Spared(c, hop)'
                            /\ r.pc = "pubkey" => Trusted(c, hop)'
  <2> SUFFICES ASSUME CheckMode # "off"
               PROVE  /\ r.pc = "confirm" => <<Host(c), key, TRUE>> \notin kh'
                      /\ r.pc = "pubkey" => /\ <<Host(c), key, FALSE>> \in kh'
                                            /\ <<Host(c), key, TRUE>> \notin kh'
    BY <1>4, <1>3, <1>6, NameFacts DEF Spared, Trusted, HostOf
  <2>1. conn[c] \in Record /\ conn \in [Conns -> Record]
    BY DEF IInv, Types
  <2>2. \A p : Goto(c, p) => conn'[c].pc = p
    BY <2>1 DEF Goto, Record
  <2>3. \/ HostKeyStatus(kh, Host(c), key) = "known" /\ r.pc = "pubkey" /\ kh' = kh
        \/ /\ HostKeyStatus(kh, Host(c), key) = "unknown" /\ r.pc = "pubkey"
           /\ kh' = kh \cup {<<Host(c), key, FALSE>>}
        \/ HostKeyStatus(kh, Host(c), key) = "unknown" /\ r.pc = "confirm" /\ kh' = kh
        \/ r.pc = "failed"
    BY <1>1, <1>4, <2>2
  <2>4. QED
    BY <1>8, <2>3, StatusFacts DEF IInv, Grows
<1>11. CheckMode # "off" /\ hop = "target" /\ Jump[c] # None => Trusted(c, "jump")'
  <2>1. CheckMode # "off" /\ hop = "target" /\ Jump[c] # None => Trusted(c, "jump")
    BY <1>1 DEF IInv, ConnInv, At, Beyond
  <2>2. hop = "target" => shown'[c]["jump"] = shown[c]["jump"]
    BY <1>6 DEF Hops
  <2>3. QED
    BY <1>8, <2>1, <2>2 DEF Trusted, Spared, HostOf, Grows
<1>12. hop = "jump" => Jump[c] # None
  BY DEF IInv, ConnInv
<1>13. ConnInv(c)'
  BY <1>3, <1>4, <1>10, <1>11, <1>12 DEF ConnInv, Checked
<1>14. \A d \in Conns \ {c} : ConnInv(d)'
  BY <1>4, <1>6, <1>8, OthersKeep DEF IInv
<1>15. QED
  BY <1>9, <1>13, <1>14 DEF IInv

\* A key the user confirmed is appended before the hop is passed.
LEMMA ConfirmInv == ASSUME IInv, NEW c \in Conns, ConfirmHostKey(c) PROVE IInv'
<1> DEFINE hop == conn[c].hop
           e == <<Host(c), shown[c][hop], FALSE>>
<1>1. conn[c].pc = "confirm" /\ UNCHANGED <<kc, shown>> /\ conn[c] \in Record
  BY DEF ConfirmHostKey, At, IInv, Types
<1>2. kc' \in [Names -> Passwords \cup {None}]
  BY <1>1 DEF IInv, Types
<1>3. CASE Goto(c, "failed") /\ UNCHANGED kh
  BY <1>1, <1>2, <1>3, PassInv
<1>4. CASE Goto(c, "pubkey") /\ kh' = kh \cup {e}
  <2>1. PICK r \in Record : /\ conn' = [conn EXCEPT ![c] = r]
                            /\ r.pc = "pubkey" /\ r.hop = hop
    BY <1>4, GotoFacts DEF IInv, PCs
  <2>2. conn'[c] = r /\ \A d \in Conns \ {c} : conn'[d] = conn[d]
    BY <2>1 DEF IInv, Types
  <2>3. \A h, k : <<h, k, TRUE>> \in kh' => <<h, k, TRUE>> \in kh
    <3> SUFFICES ASSUME NEW h, NEW k, <<h, k, TRUE>> \in kh' PROVE <<h, k, TRUE>> \in kh
      OBVIOUS
    <3>1. <<h, k, TRUE>> # e
      OBVIOUS
    <3>2. QED
      BY <1>4, <3>1
  <2>4. Grows
    BY <1>4, <2>3 DEF Grows
  <2>5. ASSUME NEW x \in kh' PROVE x = <<x[1], x[2], x[3]>> /\ x[3] \in BOOLEAN
    <3>1. CASE x \in kh
      BY <3>1 DEF IInv, Types
    <3>2. CASE x = e
      BY <3>2
    <3>3. QED
      BY <1>4, <3>1, <3>2
  <2>6. Types'
    BY <1>1, <1>2, <2>1, <2>5 DEF IInv, Types
  <2>7. CheckMode # "off" => Trusted(c, hop)'
    <3>1. CheckMode # "off" => <<Host(c), shown[c][hop], TRUE>> \notin kh
      BY <1>1, NameFacts DEF IInv, ConnInv, Spared
    <3>2. e \in kh'
      BY <1>4
    <3>3. CheckMode # "off" => <<Host(c), shown[c][hop], TRUE>> \notin kh'
      BY <2>3, <3>1
    <3>4. HostOf(c, hop)' = Host(c) /\ (shown[c][hop])' = shown[c][hop]
      BY <1>1, <2>1, <2>2, NameFacts DEF HostOf
    <3>5. QED
      BY <3>2, <3>3, <3>4 DEF Trusted, Spared
  <2>8. CheckMode # "off" /\ hop = "target" /\ Jump[c] # None => Trusted(c, "jump")'
    <3>1. CheckMode # "off" /\ hop = "target" /\ Jump[c] # None => Trusted(c, "jump")
      BY <1>1 DEF IInv, ConnInv, Beyond
    <3>2. QED
      BY <1>1, <2>4, <3>1 DEF Trusted, Spared, HostOf, Grows
  <2>9. hop = "jump" => Jump[c] # None
    BY DEF IInv, ConnInv
  <2>10. ConnInv(c)'
    BY <2>1, <2>2, <2>7, <2>8, <2>9 DEF ConnInv, Checked
  <2>11. \A d \in Conns \ {c} : ConnInv(d)'
    BY <1>1, <2>2, <2>4, OthersKeep DEF IInv
  <2>12. QED
    BY <2>6, <2>10, <2>11 DEF IInv
<1>5. QED
  BY <1>3, <1>4 DEF ConfirmHostKey

\* From the public keys to the offer to save the password.
LEMMA AuthInv ==
  ASSUME IInv, NEW c \in Conns,
         PublicKeys(c) \/ ReadKeychain(c) \/ StoredVerdict(c) \/ PromptPassword(c)
           \/ TypedVerdict(c) \/ OfferSave(c)
  PROVE  IInv'
<1>1. kc \in [Names -> Passwords \cup {None}] /\ conn[c] \in Record /\ Name(c) \in Names
  BY NameFacts DEF IInv, Types
<1>2. UNCHANGED <<kh, shown>> /\ conn[c].pc \in Checked
  BY DEF PublicKeys, ReadKeychain, StoredVerdict, PromptPassword, TypedVerdict, OfferSave,
         At, Checked, stores
<1>3. kc' \in [Names -> Passwords \cup {None}]
  <2>1. conn[c].read \in Passwords \cup {None}
    BY <1>1 DEF Record
  <2>2. \/ kc' = kc \/ kc' = [kc EXCEPT ![Name(c)] = None]
        \/ kc' = [kc EXCEPT ![Name(c)] = conn[c].read]
    BY DEF PublicKeys, ReadKeychain, StoredVerdict, PromptPassword, TypedVerdict, OfferSave,
           stores
  <2>3. QED
    BY <1>1, <2>1, <2>2
<1>4. CASE Accepted(c)
  BY <1>2, <1>3, <1>4, AcceptedInv
<1>5. CASE \E to \in {"failed", "keychain", "prompt", "offer"} : Goto(c, to) \/ Drop(c, to)
  BY <1>2, <1>3, <1>5, PassInv
<1>6. CASE \E got \in Passwords \cup {None}, to \in {"prompt", "stored", "typed"} :
             conn' = [conn EXCEPT ![c] = [@ EXCEPT !.read = got, !.pc = to]]
  <2>1. PICK got \in Passwords \cup {None}, to \in {"prompt", "stored", "typed"} :
             conn' = [conn EXCEPT ![c] = [@ EXCEPT !.read = got, !.pc = to]]
    BY <1>6
  <2> DEFINE r == [conn[c] EXCEPT !.read = got, !.pc = to]
  <2>2. r \in Record /\ r.pc = to /\ r.hop = conn[c].hop
    BY <1>1 DEF Record, PCs
  <2>3. conn' = [conn EXCEPT ![c] = r]
    BY <2>1
  <2> HIDE DEF r
  <2>4. conn[c].pc \in Beyond
    BY <1>2 DEF Beyond
  <2>5. QED
    BY <1>2, <1>3, <2>2, <2>3, <2>4, MoveInv
<1>7. PublicKeys(c) => Accepted(c) \/ Goto(c, "failed") \/ Goto(c, "keychain")
  BY DEF PublicKeys
<1>8. ASSUME ReadKeychain(c)
      PROVE  \E got \in Passwords \cup {None}, to \in {"prompt", "stored", "typed"} :
               conn' = [conn EXCEPT ![c] = [@ EXCEPT !.read = got, !.pc = to]]
  <2>1. PICK got \in {kc[Name(c)], None} :
          conn' = [conn EXCEPT ![c].read = got, ![c].pc = IF got = None THEN "prompt" ELSE "stored"]
    BY <1>8 DEF ReadKeychain
  <2>2. got \in Passwords \cup {None}
    BY <1>1
  <2> DEFINE to == IF got = None THEN "prompt" ELSE "stored"
  <2>3. to \in {"prompt", "stored", "typed"}
    OBVIOUS
  <2>4. conn' = [conn EXCEPT ![c] = [@ EXCEPT !.read = got, !.pc = to]]
    BY <1>1, <2>1 DEF IInv, Types
  <2> HIDE DEF to
  <2>5. QED
    BY <2>2, <2>3, <2>4
<1>9. StoredVerdict(c) => Accepted(c) \/ Drop(c, "prompt")
  BY DEF StoredVerdict
<1>10. ASSUME PromptPassword(c)
       PROVE  \/ Goto(c, "failed")
              \/ \E got \in Passwords \cup {None}, to \in {"prompt", "stored", "typed"} :
                   conn' = [conn EXCEPT ![c] = [@ EXCEPT !.read = got, !.pc = to]]
  <2>1. CASE Goto(c, "failed")
    BY <2>1
  <2>2. CASE \E pw \in Passwords : conn' = [conn EXCEPT ![c].pc = "typed", ![c].read = pw]
    <3>1. PICK pw \in Passwords : conn' = [conn EXCEPT ![c].pc = "typed", ![c].read = pw]
      BY <2>2
    <3>2. conn' = [conn EXCEPT ![c] = [@ EXCEPT !.read = pw, !.pc = "typed"]]
      BY <1>1, <3>1 DEF IInv, Types, Record
    <3>3. QED
      BY <3>2
  <2>3. QED
    BY <1>10, <2>1, <2>2 DEF PromptPassword
<1>11. TypedVerdict(c) => Goto(c, "offer") \/ Drop(c, "failed")
  BY DEF TypedVerdict
<1>12. OfferSave(c) => Accepted(c)
  BY DEF OfferSave
<1>13. QED
  BY <1>4, <1>5, <1>6, <1>7, <1>8, <1>9, <1>10, <1>11, <1>12

\* Steps that end in a place where nothing is claimed of the keys.
LEMMA ElsewhereInv ==
  ASSUME IInv, NEW c \in Conns, NEW to \in {"keys", "hostkey", "failed"},
         Goto(c, to), to = "hostkey" => conn[c].pc = "connect", UNCHANGED <<stores, shown>>
  PROVE  IInv'
<1>1. PICK r \in Record : /\ conn' = [conn EXCEPT ![c] = r]
                          /\ r.pc = to /\ r.hop = conn[c].hop
  BY GotoFacts DEF IInv, PCs
<1>2. kc' \in [Names -> Passwords \cup {None}] /\ UNCHANGED <<kh, shown>>
  BY DEF IInv, Types, stores
<1>3. r.pc \notin Checked \cup {"forward", "up"} /\ (r.pc \in Beyond => conn[c].pc \in Beyond)
  BY <1>1 DEF Checked, Beyond
<1>4. QED
  BY <1>1, <1>2, <1>3, MoveInv

\* A finished login starts afresh, and forgets the keys it was shown.
LEMMA FinishInv == ASSUME IInv, NEW c \in Conns, Finish(c) PROVE IInv'
<1> DEFINE r == [Fresh EXCEPT !.pc = "finished"]
<1>1. r \in Record /\ r.pc = "finished" /\ r.hop = "target"
  BY DEF Fresh, Record, PCs, Hops
<1>2. /\ conn' = [conn EXCEPT ![c] = r] /\ shown' = [shown EXCEPT ![c] = NoKeys]
      /\ UNCHANGED <<kh, kc>>
  BY DEF Finish, stores
<1> HIDE DEF r
<1>3. NoKeys \in [Hops -> AnyKey]
  <2>1. None \in AnyKey
    BY DEF AnyKey
  <2>2. QED
    BY <2>1 DEF NoKeys, Hops
<1>4. Types'
  BY <1>1, <1>2, <1>3 DEF IInv, Types
<1>5. conn'[c] = r /\ \A d \in Conns \ {c} : conn'[d] = conn[d] /\ shown'[d] = shown[d]
  BY <1>2 DEF IInv, Types
<1>6. ConnInv(c)'
  BY <1>1, <1>5 DEF ConnInv, Checked, Beyond
<1>7. \A d \in Conns \ {c} : ConnInv(d)'
  BY <1>2, <1>5, OthersKeep DEF IInv, Grows
<1>8. QED
  BY <1>4, <1>6, <1>7 DEF IInv

\* Steps that leave every connection and its keys alone.
LEMMA RestInv ==
  ASSUME IInv, UNCHANGED <<conn, kh, shown>>, kc' \in [Names -> Passwords \cup {None}]
  PROVE  IInv'
<1>1. Types'
  BY DEF IInv, Types
<1>2. \A c \in Conns : ConnInv(c)'
  BY OthersKeep DEF IInv, Grows
<1>3. QED
  BY <1>1, <1>2 DEF IInv

\* The invariant is inductive.
LEMMA StepInv == IInv /\ [Next]_vars => IInv'
<1> SUFFICES ASSUME IInv, [Next]_vars PROVE IInv'
  OBVIOUS
<1>1. ASSUME NEW c \in Conns, Acquire(c) \/ MuxOpen(c) PROVE IInv'
  BY <1>1, ElsewhereInv DEF Acquire, MuxOpen
<1>2. ASSUME NEW c \in Conns, Connect(c) PROVE IInv'
  BY <1>2, ElsewhereInv DEF Connect, At
<1>3. ASSUME NEW c \in Conns, LoginStep(c) PROVE IInv'
  BY <1>2, <1>3, LoadKeysInv, CheckServerKeyInv, ConfirmInv, AuthInv, OpenForwardInv
     DEF LoginStep
<1>4. ASSUME NEW c \in Conns, OpenExec(c) PROVE IInv'
  <2>1. kc' \in [Names -> Passwords \cup {None}] /\ UNCHANGED <<kh, shown>>
    BY <1>4 DEF OpenExec, stores, IInv, Types
  <2>2. QED
    BY <1>4, <2>1, PassInv DEF OpenExec
<1>5. ASSUME NEW c \in Conns, Finish(c) PROVE IInv'
  BY <1>5, FinishInv
<1>6. CASE PasswordSet \/ PasswordRemove
  <2>1. kc' \in [Names -> Passwords \cup {None}] /\ UNCHANGED <<conn, kh, shown>>
    BY <1>6 DEF PasswordSet, PasswordRemove, IInv, Types
  <2>2. QED
    BY <2>1, RestInv
<1>7. CASE UNCHANGED lvars
  <2>1. kc' \in [Names -> Passwords \cup {None}] /\ UNCHANGED <<conn, kh, shown>>
    BY <1>7 DEF lvars, stores, IInv, Types
  <2>2. QED
    BY <2>1, RestInv
<1>8. ASSUME NEW c \in Conns, Task(c) \/ Other(c) PROVE IInv'
  <2>1. \/ Acquire(c) \/ MuxOpen(c) \/ LoginStep(c) \/ OpenExec(c) \/ Finish(c)
        \/ UNCHANGED lvars
    BY <1>8 DEF Task, Other, Connecting, RemoteExits, ExitStatus, ExitSignal, ChannelEof
  <2>2. QED
    BY <1>1, <1>3, <1>4, <1>5, <1>7, <2>1
<1>9. CASE JoinAll \/ Returned \/ UNCHANGED vars
  BY <1>7, <1>9 DEF JoinAll, Returned, vars
<1>10. QED
  BY <1>6, <1>8, <1>9 DEF Next, Someone

-----------------------------------------------------------------------------
\* Every reachable state satisfies the invariant: a connection is past a hop
\* only when the key it was shown there is on file and was never revoked.
THEOREM InductiveInvariant == Spec => []IInv
  BY InitInv, StepInv, PTL DEF Spec

\* A session is up only if every hop, the jump host and the host behind it,
\* showed a key that is on file for it and was never revoked, unless checking
\* is off, whatever the other logins write to known_hosts meanwhile.
THEOREM OnlyTrustedUp == Spec => []UpOnlyTrusted
<1>1. IInv => UpOnlyTrusted
  <2> SUFFICES ASSUME IInv, NEW c \in Conns, At(c, "up"), CheckMode # "off",
                      NEW hop \in Hops, HostOf(c, hop) # None
               PROVE  Trusted(c, hop)
    BY DEF UpOnlyTrusted, Hops, HostOf, Trusted, Spared
  <2>1. conn[c].pc = "up" /\ conn[c].hop = "target" /\ ConnInv(c)
    BY DEF IInv, ConnInv, At
  <2>2. CASE hop = "target"
    BY <2>1, <2>2 DEF ConnInv
  <2>3. CASE hop = "jump"
    BY <2>1, <2>3 DEF ConnInv, Beyond, HostOf
  <2>4. QED
    BY <2>2, <2>3 DEF Hops
<1>2. QED
  BY <1>1, InductiveInvariant, PTL

\* What one step may do to a stored password.
Deletion ==
  \A n \in Names, c \in Conns :
    kc[n] # None /\ kc'[n] = None /\ conn'[c] # conn[c] =>
      \/ n \in blind'
      \/ \E h \in Hosts : n[2] = h /\ <<h, kc[n]>> \in refused'

\* The step that deletes one, and the steps that delete none.
LEMMA VerdictDeletes ==
  ASSUME IInv, NEW c \in Conns, StoredVerdict(c), NEW n \in Names, kc[n] # None, kc'[n] = None
  PROVE  n \in blind' \/ \E h \in Hosts : n[2] = h /\ <<h, kc[n]>> \in refused'
<1>1. kc \in [Names -> Passwords \cup {None}] /\ Name(c) \in Names /\ Host(c) \in Hosts
  BY NameFacts DEF IInv, Types
<1>2. /\ refused' = refused \cup {<<Host(c), conn[c].read>>}
      /\ kc' = [kc EXCEPT ![Name(c)] = None]
      /\ blind' = IF kc[Name(c)] \in {None, conn[c].read} THEN blind ELSE blind \cup {Name(c)}
  BY DEF StoredVerdict
<1>3. n = Name(c)
  BY <1>1, <1>2
<1>4. Name(c)[2] = Host(c)
  BY DEF Name, Host, JumpName
<1>5. CASE kc[n] = conn[c].read
  BY <1>1, <1>2, <1>3, <1>4, <1>5
<1>6. CASE kc[n] # conn[c].read
  BY <1>2, <1>3, <1>6
<1>7. QED
  BY <1>5, <1>6

\* Every step deletes only what was refused.
LEMMA StepDeletes == IInv /\ [Next]_vars => Deletion
<1> SUFFICES ASSUME IInv, [Next]_vars, NEW n \in Names, NEW d \in Conns,
                    kc[n] # None, kc'[n] = None, conn'[d] # conn[d]
             PROVE  n \in blind' \/ \E h \in Hosts : n[2] = h /\ <<h, kc[n]>> \in refused'
  BY DEF Deletion
<1>1. kc' # kc /\ conn' # conn
  OBVIOUS
<1>2. PICK c \in Conns : LoginStep(c)
  BY <1>1 DEF Next, Task, Other, Someone, PasswordSet, PasswordRemove, JoinAll, Returned, vars,
     lvars, gvars, stores, Acquire, MuxOpen, Connecting, OpenExec, RemoteExits, ExitStatus,
     ExitSignal, ChannelEof, Finish
<1>3. CASE StoredVerdict(c)
  BY <1>3, VerdictDeletes
<1>4. CASE OfferSave(c)
  <2>1. kc[Name(c)] = None /\ kc' = [kc EXCEPT ![Name(c)] = conn[c].read]
    BY <1>1, <1>4 DEF OfferSave
  <2>2. kc'[n] = kc[n]
    BY <2>1 DEF IInv, Types
  <2>3. QED
    BY <2>2
<1>5. CASE ~StoredVerdict(c) /\ ~OfferSave(c)
  BY <1>1, <1>2, <1>5 DEF LoginStep, LoadKeys, Connect, CheckServerKey, ConfirmHostKey,
     PublicKeys, ReadKeychain, PromptPassword, TypedVerdict, OpenForward, stores
<1>6. QED
  BY <1>3, <1>4, <1>5

\* A login removes a stored password only after the server refused it, or one
\* that was stored under the same name after the login had read the entry.
THEOREM DeletesOnlyRefused == Spec => DeletedOnlyRefused
<1>1. IInv /\ [Next]_vars => [Deletion]_lvars
  BY StepDeletes
<1>2. Spec => [][Deletion]_lvars
  BY <1>1, InductiveInvariant, PTL DEF Spec
<1>3. [][Deletion]_lvars <=> DeletedOnlyRefused
  BY DEF Deletion, DeletedOnlyRefused
<1>4. QED
  BY <1>2, <1>3
=============================================================================
