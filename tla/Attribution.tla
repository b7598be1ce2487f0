----------------------------- MODULE Attribution -----------------------------
(***************************************************************************)
(* Who owns a spend log: src/src/finopsai/attribution/tags.py and the       *)
(* coercions of collectors/litellm_spend.py that feed it.                   *)
(*                                                                         *)
(* A text is a model of a raw string; Normalize says what trimming and      *)
(* lowercasing make of it, Nothing when nothing usable is left. A tag is a  *)
(* pair of texts, or Malformed: no separator, or not a string at all.       *)
(***************************************************************************)
EXTENDS Integers, Sequences, FiniteSetsExt

CONSTANTS
    Texts,         \* raw strings of tags and metadata
    Normalize,     \* [Texts \cup {Nothing} -> Texts \cup {Nothing}]
    Nothing,       \* Python's None
    Malformed,     \* a tag list item that is not "key:value"
    Unattributed   \* the text "unattributed"

Dimensions == {"team", "project", "agent_id", "use_case"}

\* The order in which the keys of a team alias are consulted.
TeamAliasKeys == <<"user_api_key_team_alias", "team_alias">>

MetadataKeys == Dimensions \cup {"user_api_key_team_alias", "team_alias"}

\* Normalizing twice changes nothing, None is not a string, and the texts of
\* the dimensions and of the default are in normal form. Assumed by Allocation.
Normalization ==
    /\ Normalize \in [Texts \cup {Nothing} -> Texts \cup {Nothing}]
    /\ \A t \in Texts \cup {Nothing} : Normalize[Normalize[t]] = Normalize[t]
    /\ Normalize[Nothing] = Nothing
    /\ \A t \in Dimensions \cup {Unattributed} : t \in Texts /\ Normalize[t] = t

\* Python's a or b or ... : the first of the values that is not None.
FirstOf(values, default) ==
    LET usable == {i \in DOMAIN values : values[i] # Nothing}
    IN IF usable = {} THEN default ELSE values[Min(usable)]

ParseTagListLast(tags) ==             \* mutant: a later tag replaces an earlier one
    [k \in Dimensions |->
        FirstOf([i \in DOMAIN tags |->
            LET tag == tags[Len(tags) + 1 - i]
            IN IF tag # Malformed /\ Normalize[tag.key] = k
               THEN Normalize[tag.value] ELSE Nothing], Nothing)]

\* The first usable tag of each dimension; a blank value does not count.
ParseTagList(tags) ==
    [k \in Dimensions |->
        FirstOf([i \in DOMAIN tags |->
                    IF tags[i] # Malformed /\ Normalize[tags[i].key] = k
                    THEN Normalize[tags[i].value] ELSE Nothing], Nothing)]

\* Metadata keys are matched as they are, values are normalized.
FromMetadata(metadata, key) == Normalize[metadata[key]]

TeamFromKeyAlias(metadata) ==
    FirstOf([i \in DOMAIN TeamAliasKeys |-> FromMetadata(metadata, TeamAliasKeys[i])],
            Unattributed)

\* Tags first, then metadata; the alias only where that leaves no team.
ResolveAttribution(tags, metadata) ==
    LET resolved ==
            [k \in Dimensions |->
                FirstOf(<<ParseTagList(tags)[k], FromMetadata(metadata, k)>>, Unattributed)]
    IN [resolved EXCEPT !["team"] =
            IF @ = Unattributed THEN TeamFromKeyAlias(metadata) ELSE @]
=============================================================================
