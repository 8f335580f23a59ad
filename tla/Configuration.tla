--------------------------- MODULE Configuration ---------------------------
(***************************************************************************)
(* How a provider block becomes a client: Configure in                     *)
(* internal/provider/provider.go, NewClient and specFor in                 *)
(* internal/proxmox/client.go and product.go, NewSSHClient in              *)
(* internal/proxmox/ssh.go.                                                *)
(*                                                                         *)
(* An address is the sequence of its parts between colons, scheme, blanks  *)
(* and trailing slash off: <<"node", "22">> is "node:22".  A port is its   *)
(* numeral, Unset where it is 0.  Credentials are given or not.            *)
(***************************************************************************)
EXTENDS Integers, Sequences

CONSTANTS
  Blocks,             \* the provider blocks tried
  Numerals,           \* the parts strconv.Atoi reads
  Unset,              \* a port that is 0, or none
  Second,             \* nanoseconds in a second
  Word,               \* the values of an int64: 2^64
  NoClient,           \* Configure has not built a client
  NoSSH               \* a client without an SSH transport

VARIABLES
  block,              \* the provider block
  client              \* what Configure hands to the resources

configuration == <<block, client>>

Products == {"pve", "pbs", "pmg", "pdm"}
NoProduct == {"null", "unknown", "empty"}   \* `product` left out, or not yet known
Identities == {"file", "pem", "agent"}
Addresses == Seq(STRING) \ {<<>>}

\* int64: what a product of two of them keeps.
Half == Word \div 2
Int64 == (-Half)..(Half - 1)
Wrap(n) == ((n + Half) % Word) - Half

AllBlocks ==
  [product : Products \cup NoProduct \cup {"other"},
   host : Addresses, port : Numerals \cup {Unset},
   username : BOOLEAN, token : BOOLEAN,
   insecure : {"null", "unknown", "true", "false"},
   timeout : Int64,                        \* timeout_seconds, 0 where it is left out
   ssh : BOOLEAN, sshHost : Addresses, sshPort : Numerals \cup {Unset},
   keyFile : BOOLEAN, keyPEM : BOOLEAN]    \* given, and not blank

ASSUME ConfigurationAssumption ==
  /\ Word \in Nat /\ Half \in Nat /\ Word = 2 * Half
  /\ Second \in Nat /\ 0 < Second /\ 45 * Second < Half
  /\ Blocks \subseteq AllBlocks
  /\ Numerals \subseteq STRING /\ {"8006", "8007", "8443"} \subseteq Numerals
  /\ Unset \notin Numerals

-----------------------------------------------------------------------------
\* What NewClient makes of the configuration.

specFor ==
  [p \in Products |->
     [defaultPort |-> CASE p \in {"pve", "pmg"} -> "8006" [] p = "pbs" -> "8007" [] p = "pdm" -> "8443",
      supportsToken |-> p # "pmg"]]

ProductOf(b) == IF b.product \in NoProduct THEN "pve" ELSE b.product

Or(port, default) == IF port = Unset THEN default ELSE port

Duration(seconds) == Wrap(seconds * Second)

\* Faults, for checking that the properties can fail: every host gets a port;
\* no default for a timeout left out.
FaultyAPIAddress(b) == Append(b.host, Or(b.port, specFor[ProductOf(b)].defaultPort))
FaultyRequestTimeout(b) == Duration(b.timeout)

\* NewClient adds a port only where the host has no colon at all.
APIAddress(b) ==
  IF Len(b.host) > 1 THEN b.host
  ELSE Append(b.host, Or(b.port, specFor[ProductOf(b)].defaultPort))

RequestTimeout(b) == IF Duration(b.timeout) = 0 THEN 30 * Second ELSE Duration(b.timeout)

\* splitHostPort: the last part is the port if it is a number and something
\* comes before its colon.
SplitHostPort(h) ==
  LET n == Len(h) IN
  IF n > 1 /\ SubSeq(h, 1, n - 1) # <<"">> /\ h[n] \in Numerals
  THEN [addr |-> SubSeq(h, 1, n - 1), port |-> h[n]]
  ELSE [addr |-> h, port |-> Unset]

NewSSHClient(b) ==
  LET split == SplitHostPort(b.sshHost) IN
  [addr |-> split.addr,
   port |-> Or(b.sshPort, split.port),
   identity |-> IF b.keyFile THEN "file" ELSE IF b.keyPEM THEN "pem" ELSE "agent",
   timeout |-> 45 * Second]

\* An unknown product, a token for a product without tokens, no credentials.
Refused(b) ==
  \/ ProductOf(b) \notin Products
  \/ b.token /\ ~specFor[ProductOf(b)].supportsToken
  \/ ~b.token /\ ~b.username

NewClient(b) ==
  [api |-> APIAddress(b),
   usingToken |-> b.token,
   insecure |-> b.insecure # "false",
   timeout |-> RequestTimeout(b),
   ssh |-> IF b.ssh THEN NewSSHClient(b) ELSE NoSSH]

-----------------------------------------------------------------------------
ConfigurationInit == block \in Blocks /\ client = NoClient

Configure ==
  /\ client = NoClient
  /\ ~Refused(block)
  /\ client' = NewClient(block)
  /\ UNCHANGED block

-----------------------------------------------------------------------------
\* Properties.

\* Seconds that are a positive or absent timeout an int64 of nanoseconds holds.
Sensible(seconds) == 0 <= seconds /\ seconds * Second < Half

\* Every request ends by itself: a client from a block with a sensible
\* timeout_seconds, or none, waits for a positive time and not longer than the
\* block says, and so does its SSH transport.  Beyond those values the product
\* wraps, and a timeout of net/http that is not positive is no timeout at all.
RequestsEnd ==
  client # NoClient /\ Sensible(block.timeout) =>
    /\ client.timeout = IF block.timeout = 0 THEN 30 * Second ELSE block.timeout * Second
    /\ client.timeout > 0
    /\ client.ssh # NoSSH => client.ssh.timeout > 0

\* A host as the schema means it: "host" or "host:port".
Declared(h) == Len(h) = 1 \/ (Len(h) = 2 /\ h[1] # "" /\ h[2] \in Numerals)
OwnPort(h) == IF Len(h) = 2 THEN h[2] ELSE Unset

\* The default port of the API in README.md:39, provider.go:77 and client.go:55.
DocumentedPort(b) == IF ProductOf(b) = "pbs" THEN "8007" ELSE "8006"

\* A client talks to the address its block declares: its own host, for the API
\* at the host's own port before the `port` attribute before the documented
\* default, for SSH at ssh_port before the host's own port before ssh's.  Only for
\* a pdm block that names no port the default is another: product.go:52 has 8443.
ReachesDeclaredHost ==
  client # NoClient =>
    /\ Declared(block.host) =>
         \/ client.api = <<block.host[1],
                          Or(OwnPort(block.host), Or(block.port, DocumentedPort(block)))>>
         \/ /\ block.product = "pdm" /\ OwnPort(block.host) = Unset /\ block.port = Unset
            /\ client.api = <<block.host[1], "8443">>
    /\ client.ssh # NoSSH /\ Declared(block.sshHost) =>
         /\ client.ssh.addr = <<block.sshHost[1]>>
         /\ client.ssh.port = Or(block.sshPort, OwnPort(block.sshHost))

=============================================================================
