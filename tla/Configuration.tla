---------------------------- MODULE Configuration ----------------------------
(***************************************************************************)
(* From the configuration file to the pool: Load of                        *)
(* internal/config/config.go, and what NewPool checks again of what Load   *)
(* has returned.                                                           *)
(*                                                                         *)
(* A file is what decoding makes of it: whether its text is one JSON value *)
(* without unknown fields whose variables are all set, the settings it     *)
(* gives, whether its listen address splits, and its workers.  A duration  *)
(* that does not parse is 0: Load answers both alike.  A name is its text  *)
(* and whether white space surrounds it; a URL is what url.Parse says of   *)
(* it.  Only whether Load fails is kept, not with which message.           *)
(***************************************************************************)
EXTENDS Integers, Sequences

Durations == {"requestTimeout", "shutdownTimeout", "interval", "timeout", "cooldown"}
Numbers == {"maxBodyBytes", "rateLimitRPS", "rateLimitBurst", "failureThreshold", "maxAttempts"}
Settings == Durations \cup Numbers

Texts == {"unreadable", "variable unset", "malformed", "several values", "one value"}
URLs == {"http", "https", "other scheme", "no host", "malformed"}
Empty == ""

(* The files over a set of names and a set of values. *)
Files(names, values) ==
  [text : Texts, given : UNION {[S -> values] : S \in SUBSET Settings}, splits : BOOLEAN,
   workers : Seq([name : [text : names \cup {Empty}, padded : BOOLEAN], url : URLs])]

Default ==
  [requestTimeout |-> 300, shutdownTimeout |-> 10, interval |-> 5, timeout |-> 2,
   cooldown |-> 15, maxBodyBytes |-> 10485760, rateLimitRPS |-> 10, rateLimitBurst |-> 20,
   failureThreshold |-> 3, maxAttempts |-> 2]

-----------------------------------------------------------------------------
(* Load. *)

(* What the file does not give keeps its default.                          *)
Decoded(file) ==
  [s \in Settings |-> IF s \in DOMAIN file.given THEN file.given[s] ELSE Default[s]]

(* strings.TrimSpace takes the padding away before names are compared.     *)
Trimmed(file) ==
  [i \in 1 .. Len(file.workers) |->
    [name |-> file.workers[i].name.text, url |-> file.workers[i].url]]

NamesDiffer(workers) ==
  \A i, j \in 1 .. Len(workers) : workers[i].name = workers[j].name => i = j

SettingsValid(s) ==
  /\ \A d \in Durations : s[d] > 0
  /\ s["maxBodyBytes"] > 0
  /\ s["rateLimitRPS"] >= 0 /\ s["rateLimitBurst"] > 0
  /\ s["failureThreshold"] > 0
  /\ s["maxAttempts"] > 0

WorkersValid(workers) ==
  /\ Len(workers) > 0
  /\ \A i \in 1 .. Len(workers) : workers[i].name # Empty /\ workers[i].url \in {"http", "https"}
  /\ NamesDiffer(workers)

Loads(file) ==
  /\ file.text = "one value" /\ file.splits
  /\ SettingsValid(Decoded(file))
  /\ WorkersValid(Trimmed(file))

-----------------------------------------------------------------------------
(* The pool. *)

NewPoolAccepts(workers, failureThreshold, cooldown) ==
  /\ Len(workers) > 0
  /\ failureThreshold > 0 /\ cooldown > 0
  /\ NamesDiffer(workers)
  /\ \A i \in 1 .. Len(workers) : workers[i].url # "malformed"

(* find returns the first worker of the name.                              *)
IsFound(i, workers, name) ==
  /\ workers[i].name = name
  /\ \A j \in 1 .. i - 1 : workers[j].name # name

-----------------------------------------------------------------------------
(* What a configuration that was loaded means to the rest of the guardian. *)

(* The process gets past NewPool, time.NewTicker in HealthChecker.Run      *)
(* (which panics unless its interval is positive), and the assumptions of  *)
(* the other modules on their constants hold.                              *)
SettingsFit(file) ==
  LET s == Decoded(file) IN
  /\ NewPoolAccepts(Trimmed(file), s["failureThreshold"], s["cooldown"])
  /\ s["interval"] > 0
  /\ Len(file.workers) \in Nat \ {0}
  /\ \A n \in {"failureThreshold", "cooldown", "maxAttempts", "rateLimitBurst"} :
       s[n] \in Nat \ {0}

(* A report by name reaches exactly the worker it is about, which is why   *)
(* the modules may speak of workers by their index.                        *)
ReportsFind(file) ==
  \A i \in 1 .. Len(file.workers) :
    IsFound(i, Trimmed(file), Trimmed(file)[i].name)
=============================================================================
