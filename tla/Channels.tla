------------------------------ MODULE Channels ------------------------------
(***************************************************************************)
(* Notification channels: their endpoints (internal/api/notifications.go), *)
(* the schema that says of every setting whether it is valid, secret and   *)
(* readable (internal/notify/config.go), and their rows                    *)
(* (internal/store/sqlite/notifications.go).                               *)
(*                                                                         *)
(* A config is a function from the names of settings to what they hold, a  *)
(* sequence of items: one for a string, a number or a header map, any      *)
(* number for a list.  An item is a word; "bad" stands for one that its    *)
(* setting's type, enumeration, format or template refuses.                *)
(***************************************************************************)
EXTENDS Integers, Sequences, FiniteSets, Functions

CONSTANTS
    Channels,
    Requests,     \* writes under way at once
    None,         \* an absent row or field, and the JSON null
    Bodies,       \* request bodies: [type, config, enabled, events]
    Echoes,       \* bodies a client makes of what it read: [drop, add]
    Words,        \* what an item of a setting may say
    MaxWrites, MaxSends, MaxSwitches   \* bounds

VARIABLES
    row,          \* row[c]: the channel, or None
    used,         \* ids handed out
    req,          \* req[r]: the PATCH r
    smtp,         \* InstanceSMTPConfigured
    apprise,      \* AppriseAvailable
    writes, sends, switches   \* counters for the bounds

vars == <<row, used, req, smtp, apprise, writes, sends, switches>>

Redacted == "__redacted__"

\* A setting holds words, and in a body perhaps nothing.
ChannelsAssumption ==
    /\ Redacted \in Words /\ None \notin Seq(Words)
    /\ \A b \in Bodies : \A f \in DOMAIN b.config :
          b.config[f] = None \/ b.config[f] \in Seq(Words)
    /\ \A e \in Echoes : \A f \in DOMAIN e.add : e.add[f] \in Seq(Words)

Emitted == {"monitor.up", "monitor.down", "monitor.pending"}
Idle == [at |-> "idle", c |-> None, copy |-> None, body |-> None]

-----------------------------------------------------------------------------
(* The schemas *)

Types == {"email", "webhook", "slack", "discord", "telegram", "matrix", "gotify",
          "ntfy", "pushover", "msteams", "mattermost", "googlechat", "pagerduty",
          "opsgenie", "twilio", "apprise"}

Hooked == {"slack", "discord", "msteams", "mattermost", "googlechat"}

Required(type) ==
    IF type \in Hooked THEN {"webhook_url"}
    ELSE CASE type = "email"     -> {"to"}
           [] type = "webhook"   -> {"url"}
           [] type = "telegram"  -> {"bot_token", "chat_id"}
           [] type = "matrix"    -> {"homeserver_url", "room_id", "access_token"}
           [] type = "gotify"    -> {"server_url", "application_token"}
           [] type = "ntfy"      -> {"topic"}
           [] type = "pushover"  -> {"api_token", "user_key"}
           [] type = "pagerduty" -> {"integration_key"}
           [] type = "opsgenie"  -> {"api_key"}
           [] type = "twilio"    -> {"account_sid", "auth_token", "from_number", "to_numbers"}
           [] type = "apprise"   -> {"urls"}

\* The fields marked redact.
Hidden(type) ==
    IF type \in Hooked THEN {"webhook_url"}
    ELSE CASE type = "email"     -> {"smtp_password"}
           [] type = "webhook"   -> {}
           [] type = "telegram"  -> {"bot_token"}
           [] type = "matrix"    -> {"access_token"}
           [] type = "gotify"    -> {"application_token"}
           [] type = "ntfy"      -> {"password", "token"}
           [] type = "pushover"  -> {"api_token", "user_key"}
           [] type = "pagerduty" -> {"integration_key"}
           [] type = "opsgenie"  -> {"api_key"}
           [] type = "twilio"    -> {"auth_token"}
           [] type = "apprise"   -> {"urls"}

\* The fields marked secret: a webhook's headers can be read back.
Secret(type) == Hidden(type) \cup (IF type = "webhook" THEN {"headers"} ELSE {})

\* The other settings, those a combination or a property is about.
Plain(type) ==
    CASE type = "email"   -> {"cc", "use_instance_smtp", "smtp_host", "smtp_port",
                              "smtp_username", "smtp_encryption", "from_address", "from_name"}
      [] type = "webhook" -> {"method", "body_template", "content_type", "verify_tls",
                              "timeout_seconds"}
      [] type = "ntfy"    -> {"server_url", "priority", "tags", "auth_type", "username",
                              "message_template"}
      [] OTHER            -> {"message_template"}

Fields(type) == Required(type) \cup Secret(type) \cup Plain(type)

-----------------------------------------------------------------------------
(* Configs *)

Empty == [f \in {} |-> None]
Has(config, f) == f \in DOMAIN config /\ config[f] # None
Is(config, f, word) == Has(config, f) /\ config[f] = <<word>>

\* validateCombinations, without the relay the instance may lack.
Consistent(type, config) ==
    /\ type = "email" /\ Is(config, "use_instance_smtp", "false") =>
           Has(config, "smtp_host") /\ Has(config, "from_address")
    /\ type = "ntfy" /\ Is(config, "auth_type", "basic") =>
           Has(config, "username") /\ Has(config, "password")
    /\ type = "ntfy" /\ Is(config, "auth_type", "token") => Has(config, "token")
    /\ type = "webhook" /\ Is(config, "method", "GET") => ~Has(config, "body_template")

\* Validate, but for what the instance is able to do.
Valid(type, config) ==
    /\ DOMAIN config \subseteq Fields(type)
    /\ \A f \in Required(type) : Has(config, f) /\ config[f] # <<>>
    /\ \A f \in DOMAIN config : Has(config, f) => "bad" \notin Range(config[f])
    /\ Consistent(type, config)

\* ... and what it is.
Deliverable(type, config) ==
    type = "email" /\ ~Is(config, "use_instance_smtp", "false") => smtp

Masked(held) == held # None /\ held # <<>> /\ Range(held) = {Redacted}

MutStripRedacted(config) == config

\* StripRedacted: a field whose every item is the marker says "unchanged".
StripRedacted(config) ==
    [f \in {g \in DOMAIN config : ~Masked(config[g])} |-> config[f]]

\* The PATCH's merge: a null deletes, anything else replaces.
Merged(current, incoming) ==
    LET in == StripRedacted(incoming)
        gone == {f \in DOMAIN in : in[f] = None}
    IN  [f \in (DOMAIN current \cup DOMAIN in) \ gone |->
            IF f \in DOMAIN in THEN in[f] ELSE current[f]]

\* The fields Split puts in the encrypted envelope.
Sealed(type) == Secret(type)

\* Split, at the storage boundary.
Split(type, config) ==
    LET known == {f \in Fields(type) : Has(config, f)} IN
    [public |-> [f \in known \ Sealed(type) |-> config[f]],
     secret |-> [f \in known \cap Sealed(type) |-> config[f]]]

\* Merge, for a send and for a PATCH.
Merge(public, secret) ==
    [f \in DOMAIN public \cup DOMAIN secret |->
        IF f \in DOMAIN secret THEN secret[f] ELSE public[f]]

Whole(c) == Merge(row[c].public, row[c].secret)

\* Redact: what a read shows.  A list keeps its length.
Shown(c) ==
    [f \in DOMAIN Whole(c) |->
        IF f \in DOMAIN row[c].secret /\ f \in Hidden(row[c].type)
        THEN [i \in DOMAIN Whole(c)[f] |-> Redacted] ELSE Whole(c)[f]]

-----------------------------------------------------------------------------
Rows == {c \in Channels : row[c] # None}

\* Every variable has its type, and the two halves of a config share nothing.
TypeOK ==
    /\ used \subseteq Channels /\ Rows \subseteq used
    /\ \A c \in Rows :
          /\ row[c].type \in Types
          /\ DOMAIN row[c].public \cap DOMAIN row[c].secret = {}
          /\ row[c].events \subseteq Emitted
    /\ \A r \in Requests : req[r].at \in {"idle", "loaded"}
    /\ smtp \in BOOLEAN /\ apprise \in BOOLEAN

Init ==
    /\ row = [c \in Channels |-> None] /\ used = {}
    /\ req = [r \in Requests |-> Idle]
    /\ smtp \in BOOLEAN /\ apprise \in BOOLEAN
    /\ writes = 0 /\ sends = 0 /\ switches = 0

\* createNotificationChannel, when nothing is refused: one insert.
Create(c) ==
    /\ c \notin used /\ writes < MaxWrites
    /\ \E b \in Bodies :
          LET config == StripRedacted(b.config)
              halves == Split(b.type, config)
          IN  /\ b.type \in Types /\ (b.type = "apprise" => apprise)
              /\ b.events \subseteq Emitted
              /\ Valid(b.type, config) /\ Deliverable(b.type, config)
              /\ row' = [row EXCEPT ![c] =
                     [type |-> b.type, public |-> halves.public, secret |-> halves.secret,
                      enabled |-> b.enabled, events |-> b.events, error |-> "none"]]
    /\ used' = used \cup {c} /\ writes' = writes + 1
    /\ UNCHANGED <<req, smtp, apprise, sends, switches>>

\* A body of its own, or one made of a read: some fields dropped, and items
\* added to the end of some.
EchoOf(c, e) ==
    LET shown == Shown(c) IN
    [f \in DOMAIN shown \ e.drop |-> IF f \in DOMAIN e.add THEN shown[f] \o e.add[f] ELSE shown[f]]

\* updateNotificationChannel loads the channel, then reads the body.
Load(r, c) ==
    /\ req[r].at = "idle" /\ c \in Rows /\ writes < MaxWrites
    /\ \E b \in Bodies \cup {[config |-> EchoOf(c, e), enabled |-> row[c].enabled,
                               events |-> row[c].events] : e \in Echoes} :
          req' = [req EXCEPT ![r] = [at |-> "loaded", c |-> c, copy |-> row[c], body |-> b]]
    /\ writes' = writes + 1
    /\ UNCHANGED <<row, used, smtp, apprise, sends, switches>>

\* The config a PATCH would store: the body over the copy it loaded.
Patched(copy, body) == Merged(Merge(copy.public, copy.secret), body)

\* Validated as a whole: the body alone would be refused for what it omits.
Accepted(copy, body) == Valid(copy.type, Patched(copy, body))

\* It validates the whole and rewrites every column but the send's two; the
\* row may have gone meanwhile.
Store(r) ==
    LET c == req[r].c
        copy == req[r].copy
        body == req[r].body
        config == Patched(copy, body.config)
        halves == Split(copy.type, config)
    IN  /\ req[r].at = "loaded"
        /\ row' = IF /\ Accepted(copy, body.config) /\ Deliverable(copy.type, config)
                     /\ body.events \subseteq Emitted /\ row[c] # None
                  THEN [row EXCEPT ![c] = [type |-> copy.type, public |-> halves.public,
                            secret |-> halves.secret, error |-> row[c].error,
                            enabled |-> IF body.enabled = None THEN copy.enabled ELSE body.enabled,
                            events |-> body.events]]
                  ELSE row
        /\ req' = [req EXCEPT ![r] = Idle]
        /\ UNCHANGED <<used, smtp, apprise, writes, sends, switches>>

\* deleteNotificationChannel.
Delete(c) ==
    /\ c \in Rows /\ writes < MaxWrites
    /\ row' = [row EXCEPT ![c] = None] /\ writes' = writes + 1
    /\ UNCHANGED <<used, req, smtp, apprise, sends, switches>>

\* MarkChannelResult: a send records how it went, clearing the last error; the
\* channel may have been disabled since the send loaded it.
Send(c, result) ==
    /\ c \in Rows /\ sends < MaxSends
    /\ row' = [row EXCEPT ![c].error = result] /\ sends' = sends + 1
    /\ UNCHANGED <<used, req, smtp, apprise, writes, switches>>

\* The settings gain or lose a relay.
SwitchRelay ==
    /\ switches < MaxSwitches
    /\ smtp' = ~smtp /\ switches' = switches + 1
    /\ UNCHANGED <<row, used, req, apprise, writes, sends>>

Next ==
    \/ \E c \in Channels :
          \/ Create(c) \/ Delete(c)
          \/ \E r \in Requests : Load(r, c)
          \/ \E result \in {"none", "failed"} : Send(c, result)
    \/ \E r \in Requests : Store(r)
    \/ SwitchRelay

Spec == Init /\ [][Next]_vars

-----------------------------------------------------------------------------
(* Properties *)

\* A read shows no item of a hidden field, and a client that sends back what it
\* read changes nothing: the table's three answers agree over every channel any
\* sequence of writes leaves (config.go's header comment).
ReadsAreSafe ==
    \A c \in Rows :
        /\ \A f \in Hidden(row[c].type) \cap DOMAIN Shown(c) : Range(Shown(c)[f]) \subseteq {Redacted}
        /\ Patched(row[c], Shown(c)) = Whole(c)

\* A stored channel is one that validation as a whole accepts, whatever partial
\* bodies, nulls and masked fields it was assembled from.
ChannelsAreSendable == \A c \in Rows : Valid(row[c].type, Whole(c))

\* The marker a read hands out is never stored in place of a secret.
MarkerNeverStored ==
    \A c \in Rows : \A f \in DOMAIN Whole(c) : Redacted \notin Range(Whole(c)[f])

\* A PATCH leaves the secrets its body does not name as they are.
SecretsNotNamedStay ==
    [][\A r \in Requests, c \in Channels :
          (Store(r) /\ req[r].c = c /\ c \in Rows) =>
             \A f \in DOMAIN row[c].secret \ DOMAIN req[r].body.config :
                /\ f \in DOMAIN row'[c].secret
                /\ row'[c].secret[f] = row[c].secret[f]]_vars
=============================================================================
