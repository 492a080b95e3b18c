------------------------------- MODULE AkcDecoder -------------------------------
(***************************************************************************)
(* PortableAkcDecoder and the commands around it (portable_akc.py, cli.py):*)
(* a decoder that keeps the negative dictionary of every body it has met,  *)
(* with the reader that stopped behind it, and the key/refid map that one  *)
(* command writes and others read.                                         *)
(*                                                                         *)
(* An article is its tokens: expansion (module E770) is a function of them.*)
(* TokenPrefix is the map's token_prefix; HeadTokens is the number of      *)
(* tokens that make the 256 bytes in which a refid is looked for.          *)
(***************************************************************************)
EXTENDS TokenStream, FiniteSets

CONSTANTS
  Keys,          \* keys of the seek table
  AkcFiles,      \* files tried: [bodies, windows]
  TokenPrefix, HeadTokens,
  Unexpandable,  \* tokens on which expansion raises
  Refids         \* refids; positive token i carries refid i

(* Windows name bodies of their file.                                      *)
ASSUME DecoderAssumption ==
  /\ Keys \subseteq Nat /\ IsFiniteSet(Keys)
  /\ AkcFiles \subseteq [bodies : Seq(Bodies),
                         windows : [Keys -> [body : Nat, offset : Nat, count : Nat]]]
  /\ \A f \in AkcFiles : \A k \in Keys : f.windows[k].body \in DOMAIN f.bodies
  /\ TokenPrefix \in Nat /\ HeadTokens \in Nat
  /\ Refids \subseteq Nat

VARIABLES
  akc,        \* the file, fixed
  cache,      \* _neg_cache: per body where its cached reader stands
  rows,       \* the map file
  refidKeys,  \* refid_keys, as loaded when the decoder was made
  answer,     \* history: what the last call returned
  files       \* what decode-portable wrote: an article per refid

vars == <<akc, cache, rows, refidKeys, answer, files>>

NotCached == -1
NoRefid == -1
Failed == "failed"
BodyOf(win) == akc.bodies[win.body]
EmptyFiles == [r \in {} |-> <<>>]

-----------------------------------------------------------------------------
(* _negative_dictionary: a dictionary that cannot be decoded is not kept.  *)
Cached(c, win) ==
  IF c[win.body] = NotCached /\ BodyOf(win).good THEN [c EXCEPT ![win.body] = 0] ELSE c

(* clone_reader leaves the cached reader where it is.                      *)
AfterReading(start, reached) == reached
AfterCloning(start, reached) == start

(* The first count tokens of the window's body, and the cache after it.    *)
RawTokens(c, win, count) ==
  LET hit == Cached(c, win)
      raw == DecodeTokens(BodyOf(win), hit[win.body], count)
  IN IF ~BodyOf(win).good THEN [cache |-> hit, tokens |-> Failed]
     ELSE [cache |-> [hit EXCEPT ![win.body] = AfterCloning(@, raw.pos)],
           tokens |-> IF raw.ok THEN raw.tokens ELSE Failed]

Expand(tokens) ==
  IF \E i \in DOMAIN tokens : tokens[i] \in Unexpandable THEN Failed ELSE tokens
FirstTokens(tokens, n) == SubSeq(tokens, 1, IF n < Len(tokens) THEN n ELSE Len(tokens))

CarriesRefid(token) == token[1] = "pos" /\ token[2] \in Refids
ExtractRefid(xml) ==
  LET at == {i \in DOMAIN FirstTokens(xml, HeadTokens) : CarriesRefid(xml[i])}
  IN IF at = {} THEN NoRefid ELSE xml[CHOOSE i \in at : \A j \in at : i <= j][2]

DecodeWindow(c, win) ==
  LET raw == RawTokens(c, win, win.offset + win.count)
  IN [cache |-> raw.cache,
      xml |-> IF raw.tokens = Failed THEN Failed
              ELSE Expand(SubSeq(raw.tokens, win.offset + 1, win.offset + win.count))]

-----------------------------------------------------------------------------
(* write_map_rows                                                          *)
Prefix(win) == IF win.count < TokenPrefix THEN win.count ELSE TokenPrefix

(* The windows of each body, bodies in the order they are met.             *)
KeysOf(body, keys) == {k \in keys : akc.windows[k].body = body}
IsFirst(k, keys) == k \in keys /\ \A j \in KeysOf(akc.windows[k].body, keys) : k <= j

GroupCount(group) ==
  LET ends == {akc.windows[k].offset + Prefix(akc.windows[k]) : k \in group}
  IN CHOOSE e \in ends : \A f \in ends : f <= e

SliceFromStart(raw, win) == SubSeq(raw, 1, Prefix(win))
Slice(raw, win) == SubSeq(raw, win.offset + 1, win.offset + Prefix(win))

(* refid 0 and no refid are both written as nothing.                       *)
RowOf(key, raw) ==
  LET win == akc.windows[key]
      xml == Expand(FirstTokens(Slice(raw, win), HeadTokens))
  IN [key |-> key, win |-> win, ok |-> xml # Failed,
      refid |-> IF xml = Failed \/ ExtractRefid(xml) = 0 THEN NoRefid ELSE ExtractRefid(xml)]

MapGroup(s, body, keys) ==
  LET group == KeysOf(body, keys)
      raw == RawTokens(s.cache, akc.windows[CHOOSE k \in group : TRUE], GroupCount(group))
      new == {RowOf(k, raw.tokens) : k \in group}
  IN IF ~s.ok THEN s
     ELSE IF raw.tokens = Failed THEN [s EXCEPT !.ok = FALSE, !.cache = raw.cache]
     ELSE [ok |-> \A row \in new : row.ok, cache |-> raw.cache, rows |-> s.rows \cup new]

(* As far as the bodies met in the first n keys.                           *)
WriteMapRows(c, keys) ==
  LET upTo[n \in 0..Cardinality(Keys)] ==
        IF n = 0 THEN [ok |-> TRUE, cache |-> c, rows |-> {}]
        ELSE IF IsFirst(n - 1, keys) THEN MapGroup(upTo[n - 1], akc.windows[n - 1].body, keys)
             ELSE upTo[n - 1]
  IN upTo[Cardinality(Keys)]

-----------------------------------------------------------------------------
(* load_refid_key_map: rows in key order, a later row replaces an earlier. *)
LeastKey(keys) == CHOOSE k \in keys : \A j \in keys : k <= j
LastKey(keys) == CHOOSE k \in keys : \A j \in keys : k >= j
WithRefid(r) == {row \in rows : row.refid = r}
LoadMap == [r \in {row.refid : row \in rows} \ {NoRefid} |->
              LastKey({row.key : row \in WithRefid(r)})]

NoCache == [b \in DOMAIN akc.bodies |-> NotCached]

Init ==
  /\ akc \in AkcFiles
  /\ cache = NoCache
  /\ rows = {} /\ refidKeys = [r \in {} |-> 0]
  /\ answer = [call |-> "none"] /\ files = EmptyFiles

(* A new decoder, in a new process.                                        *)
Open ==
  /\ cache' = NoCache /\ refidKeys' = LoadMap
  /\ answer' = [call |-> "open"]
  /\ UNCHANGED <<akc, rows, files>>

DecodeKey(k) ==
  LET d == DecodeWindow(cache, akc.windows[k])
  IN /\ cache' = d.cache
     /\ answer' = [call |-> "key", arg |-> k, key |-> k, xml |-> d.xml]
     /\ UNCHANGED <<akc, rows, refidKeys, files>>

DecodeRefid(r) ==
  /\ r \in DOMAIN refidKeys
  /\ LET d == DecodeWindow(cache, akc.windows[refidKeys[r]])
     IN /\ cache' = d.cache
        /\ answer' = [call |-> "refid", arg |-> r, key |-> refidKeys[r], xml |-> d.xml]
  /\ UNCHANGED <<akc, rows, refidKeys, files>>

(* map-akc: the key range begins at start and its length is the number of  *)
(* keys less start. It makes a decoder of its own. The file is opened, with*)
(* its header, before the first body is decoded: a failure leaves no rows. *)
MapAkc(start) ==
  LET range == {k \in Keys : k >= start /\ k < Cardinality(Keys)}
      s == WriteMapRows(NoCache, range)
  IN /\ rows' = IF s.ok THEN s.rows ELSE {}
     /\ answer' = [call |-> "map", ok |-> s.ok]
     /\ UNCHANGED <<akc, cache, refidKeys, files>>

(* decode-portable: the rows with a refid, in key order, with the windows  *)
(* the map holds, on one decoder; an error ends the command.               *)
PortableStep(s, row) ==
  LET d == DecodeWindow(s.cache, row.win)
  IN IF ~s.ok THEN s
     ELSE IF d.xml = Failed THEN [s EXCEPT !.ok = FALSE, !.cache = d.cache]
     ELSE [ok |-> TRUE, cache |-> d.cache,
           files |-> [r \in DOMAIN s.files \cup {row.refid} |->
                        IF r = row.refid THEN d.xml ELSE s.files[r]]]

Targets(k) == {row \in rows : row.refid # NoRefid /\ row.key = k}

(* As far as the targets with one of the first n keys.                     *)
PortableRun ==
  LET upTo[n \in 0..Cardinality(Keys)] ==
        IF n = 0 THEN [ok |-> TRUE, cache |-> NoCache, files |-> EmptyFiles]
        ELSE IF Targets(n - 1) = {} THEN upTo[n - 1]
             ELSE PortableStep(upTo[n - 1], CHOOSE row \in Targets(n - 1) : TRUE)
  IN upTo[Cardinality(Keys)]

DecodePortable ==
  /\ files' = PortableRun.files
  /\ answer' = [call |-> "portable", ok |-> PortableRun.ok, keys |-> LoadMap]
  /\ UNCHANGED <<akc, cache, rows, refidKeys>>

Next ==
  \/ Open
  \/ \E k \in Keys : DecodeKey(k)
  \/ \E r \in Refids : DecodeRefid(r)
  \/ \E start \in Keys : MapAkc(start)
  \/ DecodePortable

Spec == Init /\ [][Next]_vars

-----------------------------------------------------------------------------
Fresh(k) == DecodeWindow(NoCache, akc.windows[k]).xml

TypeOK ==
  /\ akc \in AkcFiles
  /\ cache \in [DOMAIN akc.bodies -> Nat \cup {NotCached}]
  /\ \A row \in rows : row.key \in Keys /\ row.refid \in Refids \cup {NoRefid}
  /\ DOMAIN refidKeys \subseteq Refids /\ \A r \in DOMAIN refidKeys : refidKeys[r] \in Keys

(* Whatever the decoder decoded before, an article is what a new decoder   *)
(* makes of its key: the cached dictionary and its reader are shared by    *)
(* every article of a body and must come out of each call unchanged.       *)
AnswerIsFresh ==
  answer.call \in {"key", "refid"} => answer.xml = Fresh(answer.key)

(* The map decodes the articles of a body together and only in part; the   *)
(* refid of a row is nevertheless the refid of its whole article.          *)
RowsAreArticles ==
  \A row \in rows :
    row.refid # NoRefid /\ Fresh(row.key) # Failed => ExtractRefid(Fresh(row.key)) = row.refid

(* An article asked for by refid has that refid.                           *)
RefidRoundTrip ==
  answer.call = "refid" /\ answer.xml # Failed => ExtractRefid(answer.xml) = answer.arg

(* Where several keys have one refid, decode-portable leaves the article   *)
(* that decode-article answers for that refid with the same map.           *)
PortableAgrees ==
  answer.call = "portable" /\ answer.ok =>
    \A r \in DOMAIN files : files[r] = Fresh(answer.keys[r])

(* The map, the loaded map and both commands mean the same article by a    *)
(* refid.                                                                  *)
RefidsAgree == RefidRoundTrip /\ PortableAgrees

(* Decoding fewer tokens of a body is decoding more and stopping earlier,  *)
(* also in the middle of a copy and behind the end of the body: this is    *)
(* what lets the map take the articles of a body from one list. It is about*)
(* the file alone and is looked at before the first call.                  *)
PrefixStable ==
  answer.call = "none" => \A b \in DOMAIN akc.bodies : \A m \in 0..(HeadTokens + TokenPrefix) : \A n \in 0..m :
    LET short == DecodeTokens(akc.bodies[b], 0, n)
        long == DecodeTokens(akc.bodies[b], 0, m)
    IN long.ok => short.ok /\ short.tokens = SubSeq(long.tokens, 1, n)

=============================================================================
