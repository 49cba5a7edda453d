--------------------------- MODULE AbiNegotiation ---------------------------
(***************************************************************************)
(* How a host and a plugin library agree on ABI version 1 before either    *)
(* calls the other: the query entry point (hmcl-runtime-abi and the SDK's  *)
(* query_inner), what the native engine makes of its reply, and the header *)
(* the plugin checks again when it is initialized.                         *)
(*                                                                         *)
(* A table is where its pointer leads, the two header fields and the slots *)
(* that are not null.  A status is its name.                               *)
(***************************************************************************)
EXTENDS Naturals

SizeField == 4
HeaderSize == 8       \* TABLE_HEADER_SIZE
HostPrefix == 64      \* HMCL_HOST_API_V1_PREFIX_SIZE
PluginPrefix == 40    \* HMCL_PLUGIN_API_V1_PREFIX_SIZE
V1 == 1               \* HMCL_BRIDGE_ABI_V1

Services == {"allocate", "releaseBuffer", "log", "invoke", "retainHandle", "releaseHandle"}
Callbacks == {"initialize", "invoke", "shutdown"}

Pointers == {"null", "misaligned", "aligned"}
Table(Slots) == [pointer : Pointers, size : Nat, version : Nat, slots : SUBSET Slots]

\* HostCallbacks::table and HmclPluginApiV1::with_required_prefix, as the
\* native engine passes them to the query.
HostTable == [pointer |-> "aligned", size |-> HostPrefix, version |-> V1, slots |-> Services]
Prepared == [pointer |-> "aligned", size |-> PluginPrefix, version |-> V1, slots |-> {}]

-----------------------------------------------------------------------------
(* The query.                                                              *)

Readable(host, out) == host.pointer = "aligned" /\ out.pointer = "aligned"

\* read_table_header: the version is read if the size says it is there.
HeaderRead(table) == IF table.size < HeaderSize THEN SizeField ELSE HeaderSize

\* How many bytes of each table the query reads, and writes to the output.
HostRead(host, out) == IF Readable(host, out) THEN HeaderRead(host) ELSE 0
OutRead(host, out) ==
    IF Readable(host, out) /\ host.size >= HeaderSize THEN HeaderRead(out) ELSE 0

\* negotiate_plugin_api_v1.  A header cut short and a prefix cut short have
\* the same status.
Negotiate(host, out) ==
    IF ~Readable(host, out) THEN "InvalidArgument"
    ELSE IF host.size < HostPrefix \/ out.size < PluginPrefix THEN "BufferTooSmall"
    ELSE IF host.version # V1 \/ out.version # V1 THEN "UnsupportedAbi"
    ELSE "Ok"

Written(host, out) == IF Negotiate(host, out) = "Ok" THEN PluginPrefix ELSE 0

\* query_inner: the output after the call.
Query(host, out) ==
    IF Negotiate(host, out) = "Ok"
      THEN [out EXCEPT !.size = PluginPrefix, !.version = V1, !.slots = Callbacks]
      ELSE out

\* EmbeddedPayload::load of what any library may have answered.
Load(status, table) ==
    IF status # "Ok" THEN "QueryStatus"
    ELSE IF table.version # V1 THEN "UnsupportedPluginAbi"
    ELSE IF table.size < PluginPrefix \/ ~(Callbacks \subseteq table.slots) THEN "InvalidPluginTable"
    ELSE "Loaded"

-----------------------------------------------------------------------------
(* The host table again, when the plugin is initialized.                   *)

\* Mutant: the plugin's own prefix is required of the host's table.
InitializePluginPrefix(host) ==
    IF host.pointer # "aligned" THEN "InvalidArgument"
    ELSE IF host.size < PluginPrefix THEN "BufferTooSmall"
    ELSE IF host.version # V1 THEN "UnsupportedAbi"
    ELSE "Ok"

\* initialize_inner, up to the copy of the table.
Initialize(host) ==
    IF host.pointer # "aligned" THEN "InvalidArgument"
    ELSE IF host.size < HostPrefix THEN "BufferTooSmall"
    ELSE IF host.version # V1 THEN "UnsupportedAbi"
    ELSE "Ok"

\* How many bytes of the table it reads, the copy included.
InitializeRead(host) ==
    IF host.pointer # "aligned" THEN 0
    ELSE IF Initialize(host) = "Ok" THEN HostPrefix ELSE HeaderRead(host)

\* validate_host_header, for PluginContext::from_raw: another result type.
FromRaw(host) ==
    IF host.size < HostPrefix THEN "InvalidArgument"
    ELSE IF host.version # V1 THEN "Unavailable"
    ELSE "Ok"

-----------------------------------------------------------------------------
(* Properties of a host table and an output table.                         *)

\* Whatever the tables say, no byte is read beyond the first field of a table
\* that does not advertise it, none is written beyond the capacity of the
\* output, and the output is left alone unless the query succeeds.  (The
\* staged reads of read_table_header, and the copy in initialize_inner.)
StaysWithinTables(host, out) ==
    /\ HostRead(host, out) <= SizeField \/ HostRead(host, out) <= host.size
    /\ OutRead(host, out) <= SizeField \/ OutRead(host, out) <= out.size
    /\ InitializeRead(host) <= SizeField \/ InitializeRead(host) <= host.size
    /\ Written(host, out) <= out.size
    /\ Negotiate(host, out) # "Ok" => Query(host, out) = out /\ Written(host, out) = 0

\* The three places that check a host table agree on it: what the query lets
\* through is initialized and copied, and nothing else is.  A plugin that
\* follows the query is loaded.  (negotiate_plugin_api_v1, initialize_inner,
\* PluginContext::from_raw, EmbeddedPayload::load.)
ChecksAgree(host, out) ==
    /\ Initialize(host) = Negotiate(host, Prepared)
    /\ host.pointer = "aligned" => (FromRaw(host) = "Ok" <=> Initialize(host) = "Ok")
    /\ Load(Negotiate(host, Prepared), Query(host, Prepared)) = "Loaded"
          <=> Initialize(host) = "Ok"
    /\ Negotiate(host, out) = "Ok" => Initialize(host) = "Ok"
=============================================================================
