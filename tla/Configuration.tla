--------------------------- MODULE Configuration ---------------------------
(***************************************************************************)
(* What an end runs, from the options it is started with: the command line *)
(* of bin/vs-vpn/src/main.rs, or nativeStart of the Android app, through   *)
(* client::run and server::run.  An option that was not given is "absent". *)
(***************************************************************************)
CONSTANT Secrets       \* texts that are the hex form of a key

NoKey == "no key"
BadKey == "bad key"

\* The hex form of a key is none of the other texts.
ASSUME SecretsAssumption ==
  Secrets \cap {"absent", "", "malformed", NoKey, BadKey} = {}

\* main.rs: a text that is not a key is an error.  (Not: no key.)
parse_secret_Lenient(text) == IF text \in Secrets THEN text ELSE NoKey
parse_secret(text) == IF text \in Secrets THEN text ELSE BadKey

\* nativeStart: such a text is the same as none.
parse_secret_opt(text) == IF text \in Secrets THEN text ELSE NoKey

Key(o) ==
  CASE o.by = "app" -> parse_secret_opt(o.secret)
    [] o.by = "cli" -> IF o.secret = "absent" THEN NoKey ELSE parse_secret(o.secret)

\* An error before the first connection: main returns, the process ends.
Exit == [kind |-> "exit", psk |-> NoKey]
Quic == [kind |-> "quic", psk |-> NoKey]

\* client::run and server::run.
run(key) ==
  CASE key = BadKey -> Exit
    [] key = NoKey -> [kind |-> "plain", psk |-> NoKey]
    [] OTHER -> [kind |-> "encrypted", psk |-> key]

\* The fingerprint is accepted as an option, and refused.
build_quic_client_tls(o) == IF o.insecure THEN Quic ELSE Exit

LaunchClient(o) == IF o.transport = "tcp" THEN run(Key(o)) ELSE build_quic_client_tls(o)

\* With one of the two files missing the server makes a certificate of its own.
Certificate(o) ==
  CASE "absent" \in {o.cert, o.key} -> "generated"
    [] o.cert = "pem" /\ o.key = "pem" -> "loaded"
    [] OTHER -> "error"

LaunchServer(o) ==
  IF o.transport = "tcp" THEN run(Key(o))
  ELSE IF Certificate(o) = "error" THEN Exit ELSE Quic

\* Whoever started the end gave it a secret.  (A text of the app's settings that
\* is no key counts as none.)
GivesSecret(o) == o.secret \in Secrets \/ (o.by = "cli" /\ o.secret # "absent")

\* Every way to start an end.
SecretText == Secrets \cup {"absent", "", "malformed"}
Files == {"absent", "pem", "unreadable"}

ClientOptions ==
  [by : {"cli"}, transport : {"tcp", "quic"}, secret : SecretText, insecure : BOOLEAN]
  \cup [by : {"app"}, transport : {"tcp"}, secret : SecretText]

ServerOptions ==
  [by : {"cli"}, transport : {"tcp", "quic"}, secret : SecretText, cert : Files, key : Files]
=============================================================================
