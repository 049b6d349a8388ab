------------------------------- MODULE Checks -------------------------------
(***************************************************************************)
(* The probe's checkers (probe/check): what a configuration may say, and   *)
(* what one attempt concludes from what it meets.                          *)
(*                                                                         *)
(* An attempt runs under one deadline.  A target that does not answer uses *)
(* up what is left of it; the agent may cancel the attempt at any point.   *)
(* What the target is like is chosen when the attempt starts: a world is   *)
(* the healthy one with up to two things wrong.  The registries behind     *)
(* domain_expiry have a module of their own.                               *)
(***************************************************************************)
EXTENDS Integers, FiniteSets, Sequences, SequencesExt

CONSTANTS
    Budget,      \* the timeout, in the units silence uses it up by
    None

VARIABLES
    job,         \* the attempt: its configuration, its world and where it is
    ctx,         \* "live", "expired" or "cancelled"
    left,        \* what is left of the timeout
    sockets,     \* ICMP.v4: the socket found at the first ping, for good
    out          \* the observation

vars == <<job, ctx, left, sockets, out>>

Down(class) == [status |-> "down", class |-> class]
Unknown(class) == [status |-> "unknown", class |-> class]
Up == [status |-> "up", class |-> "none"]

\* The base with one field changed, in every way listed.
Variants(base, other) ==
    {base} \cup UNION {{[base EXCEPT ![f] = v] : v \in other[f]} : f \in DOMAIN other}

-----------------------------------------------------------------------------
(* Configurations.  A field is what Validate and Check tell apart in it.    *)

HttpBase == [type |-> "http", url |-> "https", method |-> "GET", codes |-> <<200, 299>>,
             keyword |-> "none", pattern |-> "text", json |-> "none", path |-> "$.f",
             expected |-> TRUE, threshold |-> None, follow |-> TRUE, redirects |-> 10,
             auth |-> "none", family |-> "auto"]
HttpOther == [url |-> {"ftp", "no host"}, method |-> {"HEAD", "TRACE"},
              codes |-> {<<200, 399>>, <<299, 200>>, <<99, 200>>, <<599, 600>>},
              keyword |-> {"contains", "not_contains", "regex", "not_regex", "glob"},
              json |-> {"eq", "ne", "contains", "gt", "gte", "lt", "lte", "exists",
                        "not_exists", "in"},
              threshold |-> {0, 1}, follow |-> {FALSE}, redirects |-> {-1, 0, 1, 21},
              auth |-> {"bearer", "digest"}, family |-> {"ipv6", "ipx"}]
HttpConfigs ==
    LET some == Variants(HttpBase, HttpOther) IN
    some \cup {[c EXCEPT !.pattern = p] : p \in {"", "("}, c \in {x \in some : x.keyword # "none"}}
         \cup {[c EXCEPT !.path = p] : p \in {"", "$", "f", "$..f"}, c \in {x \in some : x.json = "eq"}}
         \cup {[c EXCEPT !.expected = FALSE] : c \in {x \in some : x.json # "none"}}

Hosts == {"", "a host", "http://host", "host:80"}
HostIsValid(h) == h = "host"
PortIsValid(p) == p \in 1..65535
FamilyIsValid(f) == f \in {"auto", "ipv4", "ipv6"}

\* parseStatusRanges and its accepts.
RangeIsValid(r) == r[1] \in 100..599 /\ r[2] \in 100..599 /\ r[1] <= r[2]
Accepts(r, code) == r[1] <= code /\ code <= r[2]

Operators == {"eq", "ne", "contains", "gt", "gte", "lt", "lte", "exists", "not_exists"}
NeedsExpected(op) == op \notin {"exists", "not_exists"}

\* parseJSONPath: a path selects a field; there is no descent.
PathIsValid(p) == p = "$.f"
AssertionIsValid(c) ==
    c.json \in Operators /\ PathIsValid(c.path) /\ (NeedsExpected(c.json) => c.expected)

KeywordIsValid(c) ==
    /\ c.keyword \in {"contains", "not_contains", "regex", "not_regex"}
    /\ c.pattern # ""
    /\ c.keyword \in {"regex", "not_regex"} => c.pattern # "("

ValidHttp(c) ==
    /\ c.url = "https" /\ c.method # "TRACE" /\ RangeIsValid(c.codes)
    /\ c.keyword = "none" \/ KeywordIsValid(c)
    /\ c.json = "none" \/ AssertionIsValid(c)
    /\ c.threshold = None \/ c.threshold >= 1
    /\ c.redirects \in 0..20 /\ c.auth # "digest" /\ FamilyIsValid(c.family)

TcpConfigs == Variants([type |-> "tcp", host |-> "host", port |-> 80, family |-> "auto"],
                       [host |-> Hosts, port |-> {0, 1, 65535, 65536}, family |-> {"ipv4", "ipx"}])
ValidTcp(c) == HostIsValid(c.host) /\ PortIsValid(c.port) /\ FamilyIsValid(c.family)

IcmpConfigs ==
    LET base == [type |-> "icmp", host |-> "host", size |-> 56, count |-> 2, fallback |-> FALSE,
                 port |-> 80, family |-> "auto"] IN
    Variants(base, [host |-> Hosts, size |-> {7, 8, 65507, 65508}, count |-> {0, 1, 3, 11},
                    fallback |-> {TRUE}, family |-> {"ipv4", "ipx"}])
    \cup {[base EXCEPT !.fallback = TRUE, !.port = p] : p \in {None, 0, 65536}}
SizeIsValid(n) == n \in 8..65507
ValidIcmp(c) ==
    /\ HostIsValid(c.host) /\ SizeIsValid(c.size) /\ c.count \in 1..10 /\ FamilyIsValid(c.family)
    /\ c.fallback => c.port # None /\ PortIsValid(c.port)

DnsBase == [type |-> "dns", host |-> "host", record |-> "A", resolver |-> "none", port |-> 53,
            mode |-> "any", expected |-> <<>>]
DnsConfigs ==
    Variants(DnsBase, [host |-> {""}, record |-> {"MX", "ANY"}, resolver |-> {"ip", "name"},
                       port |-> {0, 65536}, mode |-> {"exact", "some"}])
    \cup {[DnsBase EXCEPT !.mode = m, !.expected = e, !.record = r] :
              m \in {"any", "all", "exact"}, r \in {"A", "MX"},
              e \in {<<"v1">>, <<"v1", "v2">>, <<"v2", "v1">>, <<"a1">>, <<"v1", "v1">>}}
ValidDns(c) ==
    /\ c.host # "" /\ c.record \in {"A", "MX"} /\ c.resolver # "name" /\ PortIsValid(c.port)
    /\ c.mode \in {"any", "all", "exact"} /\ (c.mode = "exact" => c.expected # <<>>)

DockerConfigs ==
    Variants([type |-> "docker", container |-> "name", daemon |-> "unix:///sock", healthy |-> FALSE,
              ca |-> "none", cert |-> "none", key |-> "none"],
             [container |-> {"", "a/b"}, daemon |-> {"", "host", "unix://", "tcp://host", "tcp://host:2375",
                                                     "npipe://p", "ssh://host"},
              healthy |-> {TRUE}, ca |-> {"pem", "junk"}, cert |-> {"pem"}, key |-> {"pem"}])

\* parseDockerHost and dockerTLSConfig: Validate and dockerClient call both.
DockerHostIsValid(c) == c.daemon \in {"", "unix:///sock", "tcp://host:2375"}
DockerTLSIsValid(c) == c.ca # "junk" /\ c.cert = c.key /\ c.cert # "junk"
ValidDocker(c) == c.container = "name" /\ DockerHostIsValid(c) /\ DockerTLSIsValid(c)

TlsConfigs ==
    Variants([type |-> "tls", host |-> "host", port |-> 443, days |-> 1, verify |-> TRUE, server |-> ""],
             [host |-> Hosts, port |-> {0}, days |-> {-1, 0, 3650, 3651}, verify |-> {FALSE},
              server |-> {"host", "a host"}])
DaysAreValid(n) == n \in 0..3650
ValidTls(c) ==
    /\ HostIsValid(c.host) /\ PortIsValid(c.port) /\ DaysAreValid(c.days)
    /\ c.server # "" => HostIsValid(c.server)

Healths == {"UNKNOWN", "SERVING", "NOT_SERVING", "SERVICE_UNKNOWN"}
GrpcConfigs ==
    Variants([type |-> "grpc", address |-> "host:port", accepted |-> {}, metadata |-> "none"],
             [address |-> {"", "http://host:port", "host"},
              accepted |-> {{"SERVING", "NOT_SERVING"}, {"serving"}},
              metadata |-> {"lower", "Upper", "grpc-"}])
ValidGrpc(c) ==
    /\ c.address = "host:port" /\ c.accepted \subseteq Healths
    /\ c.metadata \notin {"Upper", "grpc-"}

Configs == HttpConfigs \cup TcpConfigs \cup IcmpConfigs \cup DnsConfigs \cup DockerConfigs
           \cup TlsConfigs \cup GrpcConfigs
Validate(c) ==
    CASE c.type = "http" -> ValidHttp(c) [] c.type = "tcp" -> ValidTcp(c)
      [] c.type = "icmp" -> ValidIcmp(c) [] c.type = "dns" -> ValidDns(c)
      [] c.type = "docker" -> ValidDocker(c) [] c.type = "tls" -> ValidTls(c)
      [] c.type = "grpc" -> ValidGrpc(c)

-----------------------------------------------------------------------------
(* Worlds: what the attempt meets.                                          *)

Dials == {"refused", "silent", "no such host", "resolver fails", "bad certificate"}

HttpWorlds ==
    LET base == [dial |-> "answers", hops |-> 0, code |-> 200, body |-> "whole", text |-> TRUE,
                 value |-> "same", slow |-> FALSE] IN
    Variants(base, [dial |-> Dials, hops |-> {1, 9, 10}, code |-> {302, 404}, body |-> {"cut", "silent"},
                    text |-> {FALSE}, value |-> {"not json", "absent", "less", "more"}, slow |-> {TRUE}])

Replies == {<<x, y, z>> : x, y, z \in {"reply", "lost", "refused"}}
IcmpWorlds == [dial : {"answers", "silent", "no such host", "resolver fails", "no such family"},
               kernel : SUBSET {"udp", "raw"}, tcp : {"answers", "refused", "silent"},
               replies : Replies]

Answers == {<<>>, <<[value |-> "v1", alias |-> "a1"]>>,
            <<[value |-> "v2", alias |-> "a2"], [value |-> "v1", alias |-> "a1"]>>}
ServerKinds == {"answers", "silent", "refused", "malformed", "truncated", "truncated, no tcp"}
ServerLists == {<<>>} \cup {<<x>> : x \in ServerKinds}
               \cup {<<x, y, z>> : x, y, z \in ServerKinds \ {"malformed", "refused", "truncated"}}
DnsWorlds == [servers : ServerLists,
              rcode : {"NOERROR", "NXDOMAIN"}, answer : Answers]

DockerWorlds ==
    LET base == [dial |-> "answers", body |-> "whole", code |-> 200, json |-> TRUE, running |-> TRUE,
                 health |-> "none"] IN
    Variants(base, [dial |-> Dials, body |-> {"cut", "silent"}, code |-> {404, 500}, json |-> {FALSE},
                    running |-> {FALSE}, health |-> {"healthy", "starting", "unhealthy"}])

\* What is left of the certificate, in half days.
TlsWorlds == [dial : {"answers"} \cup Dials, certs : BOOLEAN, left : -3..5, chain : BOOLEAN]
GrpcWorlds == [dial : {"answers", "silent", "NotFound", "Unimplemented", "Unavailable", "tls", "Internal"},
               health : Healths]
TcpWorlds == [dial : {"answers"} \cup Dials]

Worlds(type) ==
    CASE type = "http" -> HttpWorlds [] type = "tcp" -> TcpWorlds [] type = "icmp" -> IcmpWorlds
      [] type = "dns" -> DnsWorlds [] type = "docker" -> DockerWorlds [] type = "tls" -> TlsWorlds
      [] type = "grpc" -> GrpcWorlds

-----------------------------------------------------------------------------
(* One attempt.                                                             *)

Job == [config : Configs, world : UNION {Worlds(x.type) : x \in Configs},
        at : {"begin", "read", "fallback", "open", "ping", "done"}, n : Nat, got : Nat]

\* There is a share of the timeout for each server that resolv.conf may name.
ChecksAssumption == Budget \in Nat /\ Budget >= 3 /\ None \notin Job

Init == job = None /\ ctx = "live" /\ left = Budget /\ sockets = "untried" /\ out = None

c == job.config
w == job.world
At(type, step) == job # None /\ c.type = type /\ job.at = step

\* Only what Validate accepts is assigned.
Start ==
    /\ job = None
    /\ \E conf \in {x \in Configs : Validate(x)} : \E world \in Worlds(conf.type) :
           job' = [config |-> conf, world |-> world, at |-> "begin", n |-> 1, got |-> 0]
    /\ ctx' = "live" /\ left' = Budget
    /\ UNCHANGED <<sockets, out>>

Cancel == job # None /\ out = None /\ ctx = "live" /\ ctx' = "cancelled" /\ UNCHANGED <<job, left, sockets, out>>

Conclude(o) == out' = o /\ job' = [job EXCEPT !.at = "done"] /\ UNCHANGED <<ctx, left, sockets>>
Go(step) == job' = [job EXCEPT !.at = step] /\ UNCHANGED <<ctx, left, sockets, out>>

\* What waits for the target under the context: silence ends with the context.
Silent ==
    /\ job # None /\ ctx = "live"
    /\ \/ c.type \in {"http", "tcp", "docker", "tls", "grpc", "icmp"} /\ job.at = "begin" /\ w.dial = "silent"
       \/ c.type \in {"http", "docker"} /\ job.at = "read" /\ w.body = "silent"
       \/ At("icmp", "fallback") /\ w.tcp = "silent"
Expire == Silent /\ ctx' = "expired" /\ left' = 0 /\ UNCHANGED <<job, sockets, out>>

\* What such a wait returns.
Met(what) == IF ctx = "live" THEN what ELSE ctx

MutClassify(kind) == IF kind = "cancelled" THEN Down("network") ELSE
    CASE kind = "expired" -> Down("timeout") [] kind = "no such host" -> Down("dns")
      [] kind = "resolver fails" -> Unknown("dns") [] kind = "bad certificate" -> Down("tls")
      [] OTHER -> Down("network")

\* classify: a failure of the target is down, one of the probe is unknown.
Classify(kind) ==
    CASE kind = "expired" -> Down("timeout")
      [] kind = "cancelled" -> Unknown("network")
      [] kind = "no such host" -> Down("dns")
      [] kind = "resolver fails" -> Unknown("dns")
      [] kind = "bad certificate" -> Down("tls")
      [] OTHER -> Down("network")

\* clientFor: via counts the requests made, the first one included.
TooManyHops == c.follow /\ w.hops > 0 /\ w.hops >= c.redirects
Code == IF w.hops > 0 /\ ~c.follow THEN 302 ELSE w.code

KeywordHolds == IF c.keyword \in {"contains", "regex"} THEN w.text ELSE ~w.text

\* assert: a body that is not JSON fails every operator, a field that is not
\* there every one but not_exists.
ValueHolds ==
    CASE c.json = "exists" -> w.value \notin {"not json", "absent"}
      [] c.json = "not_exists" -> w.value = "absent"
      [] c.json \in {"eq", "contains"} -> w.value = "same"
      [] c.json = "ne" -> w.value \in {"less", "more"}
      [] c.json = "gt" -> w.value = "more"
      [] c.json = "gte" -> w.value \in {"more", "same"}
      [] c.json = "lt" -> w.value = "less"
      [] c.json = "lte" -> w.value \in {"less", "same"}

HttpBegins ==
    /\ At("http", "begin") /\ ~Silent
    /\ IF ~RangeIsValid(c.codes) THEN Conclude(Unknown("config"))
       ELSE IF Met(w.dial) # "answers" THEN Conclude(Classify(Met(w.dial)))
       ELSE IF TooManyHops THEN Conclude(Classify("stopped"))
       ELSE Go("read")

\* The assertions in their order; the first that fails is the observation.
HttpReads ==
    /\ At("http", "read") /\ ~Silent
    /\ Conclude(
        IF Met(w.body) # "whole" THEN Down("network")
        ELSE IF ~Accepts(c.codes, Code) THEN Down("assertion")
        ELSE IF c.keyword # "none" /\ ~KeywordHolds THEN Down("assertion")
        ELSE IF c.json # "none" /\ ~AssertionIsValid(c) THEN Unknown("config")
        ELSE IF c.json # "none" /\ ~ValueHolds THEN Down("assertion")
        ELSE IF c.threshold # None /\ w.slow THEN Down("assertion")
        ELSE Up)

TcpConnect(kind) == IF kind = "answers" THEN Up ELSE Classify(kind)
TcpChecks == At("tcp", "begin") /\ ~Silent /\ Conclude(TcpConnect(Met(w.dial)))

\* resolveForPing, and the socket the first ping of the process settles on.
Mode == IF sockets # "untried" THEN sockets
        ELSE IF "udp" \in w.kernel THEN "udp" ELSE IF "raw" \in w.kernel THEN "raw" ELSE "none"
IcmpResolves ==
    /\ At("icmp", "begin") /\ ~Silent
    /\ IF Met(w.dial) # "answers" THEN Conclude(Classify(Met(w.dial)))
       ELSE /\ sockets' = Mode
            /\ job' = [job EXCEPT !.at = IF Mode = "none" THEN "fallback" ELSE "open"]
            /\ UNCHANGED <<ctx, left, out>>

IcmpFallsBack ==
    /\ At("icmp", "fallback") /\ ~Silent
    /\ Conclude(IF ~c.fallback THEN Unknown("capability") ELSE TcpConnect(Met(w.tcp)))

IcmpOpens ==
    /\ At("icmp", "open")
    /\ IF sockets \in w.kernel THEN Go("ping") ELSE Conclude(Unknown("capability"))

\* One request.  The deadline is the socket's, set once: the reply that does not
\* come is waited for until all of it is gone.
Ping ==
    /\ At("icmp", "ping") /\ job.n <= c.count /\ ctx = "live"
    /\ LET reply == w.replies[((job.n - 1) % 3) + 1] IN
       /\ job' = [job EXCEPT !.n = @ + 1, !.got = IF reply = "reply" THEN @ + 1 ELSE @]
       /\ left' = IF reply = "lost" THEN 0 ELSE left
       /\ ctx' = IF reply = "lost" THEN "expired" ELSE ctx
    /\ UNCHANGED <<sockets, out>>

PingEnds ==
    /\ At("icmp", "ping") /\ (job.n > c.count \/ ctx # "live")
    /\ Conclude(IF job.got > 0 THEN Up ELSE IF ctx = "expired" THEN Down("timeout") ELSE Down("network"))

\* resolverAddresses: the monitor's own resolver alone, or those of resolv.conf.
Servers == IF c.resolver = "ip" THEN <<Append(w.servers, "silent")[1]>> ELSE w.servers

\* shareOfDeadline: an equal part of what is left, or all of it.
ShareOfDeadline(remaining) ==
    LET share == left \div remaining IN IF remaining <= 1 \/ share = 0 THEN left ELSE share

\* The values as they stand, and for MX the host alone as well.
Matched(e) == \E i \in DOMAIN w.answer :
                  w.answer[i].value = e \/ (c.record = "MX" /\ w.answer[i].alias = e)
Occurrences(s, e) == Cardinality({i \in DOMAIN s : s[i] = e})
MatchAnswers ==
    LET values == [i \in DOMAIN w.answer |-> w.answer[i].value] IN
    \/ c.expected = <<>>
    \/ c.mode = "any" /\ \E e \in Range(c.expected) : Matched(e)
    \/ c.mode = "all" /\ \A e \in Range(c.expected) : Matched(e)
    \/ c.mode = "exact" /\
             \A e \in Range(c.expected) \cup Range(values) : Occurrences(c.expected, e) = Occurrences(values, e)

\* A response code is an answer about the name, and so a verdict.
DnsVerdict ==
    IF w.rcode # "NOERROR" THEN Down("dns")
    ELSE IF w.answer = <<>> \/ ~MatchAnswers THEN Down("assertion") ELSE Up

\* query: one resolver after the other, until one answers or the time is up.
\* A truncated answer is asked for again over TCP.
DnsAsks ==
    /\ At("dns", "begin")
    /\ IF Servers = <<>> THEN Conclude(Unknown("config"))
       ELSE LET kind == Servers[job.n]
                share == ShareOfDeadline(Len(Servers) - job.n + 1)
                answered == ctx = "live" /\ kind \in {"answers", "truncated"}
                spent == IF ctx = "live" /\ kind = "silent" THEN share ELSE 0
                over == left - spent = 0 \/ ctx # "live" \/ job.n = Len(Servers) IN
            IF answered
            THEN Conclude(DnsVerdict)
            ELSE /\ left' = left - spent
                 /\ ctx' = IF ctx = "live" /\ left' = 0 THEN "expired" ELSE ctx
                 /\ job' = [job EXCEPT !.n = @ + 1, !.at = IF over THEN "done" ELSE "begin"]
                 /\ out' = IF over THEN Unknown("dns") ELSE None
                 /\ UNCHANGED sockets

DockerBegins ==
    /\ At("docker", "begin") /\ ~Silent
    /\ IF ~DockerHostIsValid(c) \/ ~DockerTLSIsValid(c) THEN Conclude(Unknown("config"))
       ELSE IF Met(w.dial) # "answers" THEN Conclude(Unknown("capability"))
       ELSE Go("read")

\* dockerVerdict: health only counts where it is required, and starting is no verdict.
DockerVerdict ==
    IF ~w.running THEN Down("assertion")
    ELSE IF ~c.healthy \/ w.health = "healthy" THEN Up
    ELSE IF w.health = "starting" THEN Unknown("none") ELSE Down("assertion")

DockerReads ==
    /\ At("docker", "read") /\ ~Silent
    /\ Conclude(IF Met(w.body) # "whole" THEN Unknown("capability")
                ELSE IF w.code = 404 THEN Down("assertion")
                ELSE IF w.code # 200 \/ ~w.json THEN Unknown("capability")
                ELSE DockerVerdict)

\* The handshake is made unverified; expiry is looked at before the chain.
TlsChecks ==
    /\ At("tls", "begin") /\ ~Silent
    /\ Conclude(IF Met(w.dial) # "answers" THEN Classify(Met(w.dial))
                ELSE IF ~w.certs THEN Unknown("tls")
                ELSE IF w.left <= 0 THEN Down("tls")
                ELSE IF w.left \div 2 <= c.days THEN Down("assertion")
                ELSE IF c.verify /\ ~w.chain THEN Down("tls")
                ELSE Up)

ClassifyGrpc(code) ==
    CASE code = "expired" -> Down("timeout") [] code = "cancelled" -> Unknown("network")
      [] code \in {"NotFound", "Unimplemented"} -> Down("assertion")
      [] code = "tls" -> Down("tls") [] OTHER -> Down("network")
GrpcChecks ==
    /\ At("grpc", "begin") /\ ~Silent
    /\ Conclude(IF Met(w.dial) # "answers" THEN ClassifyGrpc(Met(w.dial))
                ELSE IF w.health \in (IF c.accepted = {} THEN {"SERVING"} ELSE c.accepted) THEN Up
                ELSE Down("assertion"))

\* The observation leaves for the buffer.
Report ==
    /\ out # None /\ out' = None /\ job' = None /\ ctx' = "live" /\ left' = Budget
    /\ UNCHANGED sockets

Next ==
    \/ Start \/ Cancel \/ Expire \/ HttpBegins \/ HttpReads \/ TcpChecks \/ IcmpResolves
    \/ IcmpFallsBack \/ IcmpOpens \/ Ping \/ PingEnds \/ DnsAsks \/ DockerBegins \/ DockerReads
    \/ TlsChecks \/ GrpcChecks \/ Report

Spec == Init /\ [][Next]_vars

-----------------------------------------------------------------------------
(* What the target is answerable for, whatever order it is looked at in.    *)
TargetFails ==
    CASE c.type = "http" ->
            \/ w.dial \in {"refused", "no such host", "bad certificate"} \/ w.body = "cut"
            \/ TooManyHops \/ ~Accepts(c.codes, Code)
            \/ (c.keyword # "none" /\ ~KeywordHolds) \/ (c.json # "none" /\ ~ValueHolds)
            \/ c.threshold # None /\ w.slow
      [] c.type = "tcp" -> w.dial \in {"refused", "no such host", "bad certificate"}
      [] c.type = "icmp" ->
            \/ w.dial \in {"no such host", "no such family"}
            \/ IF sockets = "none" THEN w.tcp = "refused"
               ELSE \A i \in 1..c.count : w.replies[((i - 1) % 3) + 1] # "reply"
      [] c.type = "dns" -> w.rcode # "NOERROR" \/ w.answer = <<>> \/ ~MatchAnswers
      [] c.type = "docker" -> w.code = 404 \/ ~w.running \/ (c.healthy /\ w.health \in {"none", "unhealthy"})
      [] c.type = "tls" ->
            \/ w.dial \in {"refused", "no such host", "bad certificate"}
            \/ w.left <= 0 \/ w.left < 2 * (c.days + 1) \/ (c.verify /\ ~w.chain)
      [] c.type = "grpc" ->
            \/ w.dial \in {"NotFound", "Unimplemented", "Unavailable", "tls", "Internal"}
            \/ w.health \notin (IF c.accepted = {} THEN {"SERVING"} ELSE c.accepted)

\* What only the probe is: its resolver, its sockets, its way to the daemon.
ProbeFails ==
    CASE c.type \in {"http", "tcp"} -> w.dial = "resolver fails"
      [] c.type = "icmp" -> w.dial = "resolver fails" \/ sockets = "none" \/ sockets \notin w.kernel
      [] c.type = "dns" -> \A i \in DOMAIN Servers : Servers[i] \notin {"answers", "truncated"}
      [] c.type = "docker" -> \/ w.dial # "answers" \/ w.body # "whole" \/ w.code = 500 \/ ~w.json
                              \/ (c.healthy /\ w.health = "starting")
      [] c.type = "tls" -> w.dial = "resolver fails" \/ ~w.certs
      [] OTHER -> FALSE

TypeOK ==
    /\ ctx \in {"live", "expired", "cancelled"} /\ left \in 0..Budget
    /\ sockets \in {"untried", "udp", "raw", "none"}
    /\ out # None => out.status \in {"up", "down", "unknown"}

(* "A failure of the target is down, a failure of the probe is unknown"      *)
(* (classify): up, down and unknown say whether something is wrong and with   *)
(* whom, whichever checker concludes.  Running out of time counts as the      *)
(* target's; being cancelled does not, but for a body half read and a ping.   *)
VerdictIsRight ==
    out # None =>
        CASE out.status = "up" -> ~TargetFails
          [] out.status = "down" -> \/ TargetFails \/ ctx = "expired"
                                    \/ ctx = "cancelled" /\ c.type \in {"http", "icmp"}
          [] out.status = "unknown" -> ProbeFails \/ ctx = "cancelled"

(* A configuration Validate accepted runs: the checks it is checked again by  *)
(* while it runs never refuse it.  A probe without a resolver of its own is   *)
(* the one way a DNS monitor has of failing on its configuration.             *)
ValidMeansRunnable ==
    out # None /\ out.class = "config" => c.type = "dns" /\ Servers = <<>>

(* query: a resolver that does not answer cannot spend the whole timeout, so  *)
(* one that does is reached wherever it stands in resolv.conf.                *)
OneResolverIsEnough ==
    out # None /\ c.type = "dns" /\ ctx # "cancelled"
    /\ (\E i \in DOMAIN Servers : Servers[i] \in {"answers", "truncated"})
        => out.status # "unknown"

(* ping: "One reply is enough to call the host up".  The deadline belongs to  *)
(* the socket, and the first reply that is lost uses up all of it.            *)
OneReplyIsEnough ==
    out # None /\ c.type = "icmp" /\ sockets \in w.kernel /\ w.dial = "answers" /\ ctx # "cancelled"
    /\ (\E i \in 1..c.count : w.replies[((i - 1) % 3) + 1] = "reply")
        => out.status = "up"
=============================================================================
