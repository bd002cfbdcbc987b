----------------------------- MODULE Outbounds -----------------------------
(***************************************************************************)
(* The outbounds of Xray as the server shows and ranks them                *)
(* (server/handleroutbound.go), and as the page ranks them                 *)
(* (frontend/features.js).                                                 *)
(***************************************************************************)
EXTENDS Integers, Sequences, SequencesExt

CONSTANTS
  ToLower(_),   \* strings.ToLower
  TagBytes(_),  \* the length of a tag in bytes
  Plain(_)      \* a tag has only letters, digits and - _ . :

\* The messages of Xray: some settings by their type, split at the dots, <<>>
\* for no settings or an empty type; an outbound, whose tag is "" if it has none;
\* and what the observatory says of one, with a delay of 0 while it is unknown.
TypedMessage == Seq(STRING)
OutboundHandlerConfig == [tag : STRING, type : TypedMessage]
OutboundStatus == [tag : STRING, alive : BOOLEAN, delay : Nat]

ExcludeProtocols == {"loopback", "freedom", "dns", "blackhole"}

ParseProtocol(type) ==
  CASE type = <<>> -> "unknown"
    [] type # <<>> /\ Len(type) < 3 -> ToLower(Last(type))
    [] OTHER -> ToLower(type[3])

IsValidOutbound(ob) == ParseProtocol(ob.type) \notin ExcludeProtocols

\* handleGetOutbounds: the tags it lists.  The page sorts them, so Xray's order
\* is not kept.
Listed(outbounds) ==
  {ob.tag : ob \in {o \in ToSet(outbounds) : o.tag # "" /\ IsValidOutbound(o)}}

\* buildExcludedTags.
ExcludedTags(outbounds) ==
  {ob.tag : ob \in {o \in ToSet(outbounds) : ~IsValidOutbound(o)}}

MaxTagBytes == 256

\* validateOutboundTag: "" resets the override.  A tag that Xray accepts, and the
\* page lists, may be refused.
ValidateOutboundTag(tag) == TagBytes(tag) <= MaxTagBytes /\ (tag = "" \/ Plain(tag))

\* The index of the first of the statuses kept that has the least delay, or 0.
FirstLeast(statuses, kept) ==
  SelectInSeq(statuses, LAMBDA st :
    st \in kept /\ \A other \in kept : st.delay <= other.delay)

TagAt(statuses, i) == IF i = 0 THEN "" ELSE statuses[i].tag

Usable(statuses, excluded) ==
  {st \in ToSet(statuses) : st.alive /\ st.tag \notin excluded}

\* A mistake: a delay of 0, which means not probed yet, is the best.
BugFindBestAvailableNode(statuses, excluded) ==
  TagAt(statuses, FirstLeast(statuses, Usable(statuses, excluded)))
\* findBestAvailableNode: "" when no node is alive.
FindBestAvailableNode(statuses, excluded) ==
  LET usable == Usable(statuses, excluded)
      best   == FirstLeast(statuses, {st \in usable : st.delay > 0})
  IN  IF best # 0 THEN statuses[best].tag
      ELSE TagAt(statuses, SelectInSeq(statuses, LAMBDA st : st \in usable))

\* findBestNode of the page: "" for null.
FindBestNode(statuses) ==
  TagAt(statuses, FirstLeast(statuses,
                    {st \in ToSet(statuses) : st.alive /\ st.delay > 0}))

=============================================================================
