------------------------------- MODULE Config -------------------------------
(***************************************************************************)
(* The client configuration: what Config::parse accepts of a file, and     *)
(* which file Config::load_default loads while other programs create and   *)
(* remove the candidates.                                                  *)
(*                                                                         *)
(* An address is known by its kind alone: "loopback", "remote", or "bad"   *)
(* for one utils::check_addr refuses.  A file content is whether it is the *)
(* JSON of a file::Config and, if so, its addrs and whether tls_ca_certs   *)
(* is set.                                                                 *)
(***************************************************************************)
EXTENDS Naturals, Sequences, SequencesExt

CONSTANTS
    MaxAddrs    \* bound: addresses in a configuration file

VARIABLES
    defined,    \* the candidates the environment names: NETIDX_CFG set, config_dir and home_dir known
    exists,     \* the candidates that are files now
    pc,         \* where load_default is
    at,         \* the candidate it looks at, as an index of Order
    result,     \* what the last call returned
    touched     \* a candidate was created or removed since the call began

vars == <<defined, exists, pc, at, result, touched>>

Order == <<"NETIDX_CFG", "config_dir", "home_dir", "etc">>
Candidates == ToSet(Order)

Auths    == {"Anonymous", "Krb5", "Local", "Tls"}
Servers  == [ip : {"loopback", "remote", "bad"}, auth : Auths]
Contents == [json : {FALSE}, addrs : {<<>>}, ca : {FALSE}]
            \cup [json : {TRUE}, addrs : BoundedSeq(Servers, MaxAddrs), ca : BOOLEAN]

None   == [kind |-> "None"]
Err(e) == [kind |-> "Err", error |-> e]
Ok(c)  == [kind |-> "Ok", addrs |-> c.addrs, ca |-> c.ca]

Loopback(s) == s.ip = "loopback"

(* Faulty variant of CheckServer: local auth is let through wherever the   *)
(* server is.                                                              *)
CheckServerAnyLocal(c, s) ==
    CASE s.ip = "bad"               -> "BadAddr"
      [] s.auth = "Tls" /\ ~c.ca    -> "TlsNoCa"
      [] OTHER                      -> "Ok"

(* The body of the loop over cfg.addrs. *)
CheckServer(c, s) ==
    CASE s.ip = "bad"                        -> "BadAddr"
      [] s.auth = "Tls" /\ ~c.ca             -> "TlsNoCa"
      [] s.auth = "Local" /\ ~Loopback(s)    -> "LocalRemote"
      [] OTHER                               -> "Ok"

(* Config::parse: the first complaint in the order the code makes them. *)
Parse(c) ==
    LET refused == SelectSeq([i \in DOMAIN c.addrs |-> CheckServer(c, c.addrs[i])],
                             LAMBDA e : e # "Ok")
        all(P(_)) == \A i \in DOMAIN c.addrs : P(c.addrs[i])
        remote(s) == ~Loopback(s)
    IN  CASE ~c.json                        -> Err("Json")
          [] c.addrs = <<>>                 -> Err("NoAddrs")
          [] refused # <<>>                 -> Err(Head(refused))
          [] ~all(Loopback) /\ ~all(remote) -> Err("Mixed")
          [] OTHER                          -> Ok(c)

-----------------------------------------------------------------------------
Init ==
    /\ defined \in SUBSET (Candidates \ {"etc"})
    /\ exists \in SUBSET Candidates
    /\ pc = "idle"
    /\ at = 1
    /\ result = None
    /\ touched = FALSE

(* cfg.is_file(), for a candidate the environment names. *)
IsFile(k) == Order[k] \in (defined \cup {"etc"}) \cap exists

(* Faulty variant of After: the home directory is not looked at. *)
AfterSkipsHome(k) == IF k = 2 THEN 4 ELSE k + 1

(* The candidate looked at after candidate k. *)
After(k) == k + 1

LoadDefault ==
    /\ pc \in {"idle", "done"}
    /\ pc' = "look"
    /\ at' = 1
    /\ result' = None
    /\ touched' = FALSE
    /\ UNCHANGED <<defined, exists>>

(* Faulty variant of Look: after the last candidate another is looked at. *)
LookPastEnd ==
    /\ pc = "look"
    /\ \/ IsFile(at) /\ pc' = "load" /\ UNCHANGED <<at, result>>
       \/ ~IsFile(at) /\ at' = After(at) /\ UNCHANGED <<pc, result>>
    /\ UNCHANGED <<defined, exists, touched>>

(* One `if cfg.is_file()` of load_default: the file is there and will be   *)
(* loaded, or the next candidate is looked at, or there is none left.      *)
Look ==
    /\ pc = "look"
    /\ \/ IsFile(at) /\ pc' = "load" /\ UNCHANGED <<at, result>>
       \/ ~IsFile(at) /\ at < Len(Order) /\ at' = After(at) /\ UNCHANGED <<pc, result>>
       \/ ~IsFile(at) /\ at = Len(Order) /\ pc' = "done" /\ result' = Err("NotFound")
                      /\ UNCHANGED at
    /\ UNCHANGED <<defined, exists, touched>>

(* Config::load of the candidate found: read_to_string fails when the file *)
(* is gone by now, and what it reads is whatever the file holds.           *)
Load(c) ==
    /\ pc = "load"
    /\ pc' = "done"
    /\ result' = IF Order[at] \in exists THEN Parse(c) ELSE Err("Io")
    /\ UNCHANGED <<defined, exists, at, touched>>

(* Another program creates or removes a candidate. *)
Touch(f) ==
    /\ exists' = IF f \in exists THEN exists \ {f} ELSE exists \cup {f}
    /\ touched' = TRUE
    /\ UNCHANGED <<defined, pc, at, result>>

Next ==
    \/ LoadDefault
    \/ Look
    \/ \E c \in Contents : Load(c)
    \/ \E f \in Candidates : Touch(f)

Spec == Init /\ [][Next]_vars

-----------------------------------------------------------------------------
Errors == {"Json", "NoAddrs", "BadAddr", "TlsNoCa", "LocalRemote", "Mixed", "NotFound", "Io"}

(* The type invariant. *)
TypeOK ==
    /\ defined \subseteq Candidates \ {"etc"}
    /\ exists \subseteq Candidates
    /\ pc \in {"idle", "look", "load", "done"}
    /\ at \in DOMAIN Order
    /\ result \in {None} \cup {Err(e) : e \in Errors} \cup {Ok(c) : c \in Contents}
    /\ touched \in BOOLEAN

(* What a client may rely on in a configuration it was given, whatever the *)
(* order of the servers in the file and whichever check refused first:     *)
(* there is a server, no address is one check_addr refuses, local auth is  *)
(* used with servers on this machine only, tls only with the certificates  *)
(* set, and the servers are all on this machine or all elsewhere.          *)
AcceptedIsSound ==
    result.kind = "Ok" =>
        /\ result.addrs # <<>>
        /\ \A i \in DOMAIN result.addrs :
              LET s == result.addrs[i]
              IN  /\ s.ip # "bad"
                  /\ s.auth = "Local" => Loopback(s)
                  /\ s.auth = "Tls" => result.ca
        /\ \A i, j \in DOMAIN result.addrs :
              Loopback(result.addrs[i]) = Loopback(result.addrs[j])

(* load_default's promise, "it will load the first file that exists":      *)
(* when no candidate was created or removed during the call, the file      *)
(* loaded is the first in the order that the environment names and that    *)
(* is a file, reading it did not fail, and "no default config file was     *)
(* found" is said only if there is none.                                   *)
LoadsFirstExisting ==
    pc = "done" /\ ~touched =>
        LET files == {k \in DOMAIN Order : IsFile(k)}
        IN  /\ result # Err("Io")
            /\ result = Err("NotFound") <=> files = {}
            /\ files # {} => \A k \in files : at <= k

=============================================================================
