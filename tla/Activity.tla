----------------------------- MODULE Activity -----------------------------
(***************************************************************************)
(* internal/adapters/cursor and internal/adapters/antigravity: agents that  *)
(* record what they did and not what it cost.  A conversation's tokens are  *)
(* a range: from the text its store proves went to the model or, without a  *)
(* readable store, from the events counted times a factor taken from the    *)
(* conversations that have both.                                           *)
(***************************************************************************)
EXTENDS Rollups

CONSTANTS
  DefaultTokensPerCodeHash,    (* 101, what a code hash is worth ...       *)
  DefaultTokensPerGeneration,  (* 4172, a generation ...                   *)
  TokensPerStepFloor           (* 1451, and a step, with nothing better.   *)

InvisibleHeadroom == 2

Range3(low) == [low |-> low, high |-> low * (1 + InvisibleHeadroom)]

(* The most voted model, the smaller name on a tie; votes is a sequence of  *)
(* models and <<>> is no model.                                            *)
DominantModel(votes) ==
  LET Most(count) ==
        IF DOMAIN count = {} THEN <<>>
        ELSE CHOOSE m \in DOMAIN count : \A other \in DOMAIN count \ {m} :
               count[m] > count[other] \/ (count[m] = count[other] /\ Precedes(m, other))
  IN  Most([m \in Range(votes) |-> Len(SelectSeq(votes, LAMBDA v : v = m))])

(* Newest activity first, then by id.                                       *)
Newest(convs) ==
  Ordered(convs, LAMBDA a, b : a.at > b.at \/ (a.at = b.at /\ a.id < b.id))

(* Pooled, the sum of what was measured over the sum of what was counted,   *)
(* over the conversations with both.                                       *)
Pooled(convs, Measured(_), Counted(_), default) ==
  LET both == {c \in convs : Measured(c) > 0 /\ Counted(c) > 0}
  IN  IF both = {} THEN default
      ELSE MapThenSumSet(Measured, both) \div MapThenSumSet(Counted, both)

-----------------------------------------------------------------------------
(* Cursor: `hashes` has a row [id, model, at] per code hash, <<>> where the *)
(* model is null, empty or "default"; `stores` has the blobs of the         *)
(* conversations with a store.db and when it was last written.              *)

(* The tokens of a blob's text: editor state and cached files have a role   *)
(* of "" and show nothing that went to the model.                          *)
ModelVisibleTokens(blob) == IF blob.role = "" THEN 0 ELSE blob.tokens

StoredTextTokens(stores, id) ==
  IF id \in DOMAIN stores
  THEN FoldLeft(LAMBDA n, b : n + ModelVisibleTokens(b), 0, stores[id].blobs)
  ELSE 0

RowsOf(hashes, id) == SelectSeq(hashes, LAMBDA r : r.id = id)

Latest(rows) == FoldLeft(LAMBDA t, r : IF r.at > t THEN r.at ELSE t, 0, rows)

(* Slip: only conversations with code hashes are known.                     *)
CursorConversationsByHash(cursor) ==
  LET Models(rows) ==
        SelectSeq([i \in DOMAIN rows |-> rows[i].model], LAMBDA m : m # <<>>)
      Of(id, rows) ==
        [ id |-> id, hashes |-> Len(rows), at |-> Latest(rows),
          model |-> DominantModel(Models(rows)), text |-> StoredTextTokens(cursor.stores, id) ]
  IN  {Of(id, RowsOf(cursor.hashes, id)) : id \in {r.id : r \in Range(cursor.hashes)}}

(* collectActivity, then addConversationsFromChats, then addVisibleTokens:  *)
(* the rows' model and time win over the store's, which has no model.       *)
CursorConversations(cursor) ==
  CursorConversationsByHash(cursor) \cup
    {[ id |-> id, hashes |-> 0, at |-> cursor.stores[id].at, model |-> <<>>,
       text |-> StoredTextTokens(cursor.stores, id) ] :
       id \in DOMAIN cursor.stores \ {r.id : r \in Range(cursor.hashes)}}

TokensPerCodeHash(convs) ==
  Pooled(convs, LAMBDA c : c.text, LAMBDA c : c.hashes, DefaultTokensPerCodeHash)

(* estimateRange of the cursor adapter.                                     *)
CursorRange(c, perHash) == Range3(IF c.text > 0 THEN c.text ELSE c.hashes * perHash)

(* CollectUsage of the cursor adapter: a conversation with no signal at all *)
(* is left out.                                                            *)
CursorEntries(cursor) ==
  LET Entry(c, range) == [id |-> c.id, at |-> c.at, model |-> c.model] @@ range
      Entries(known, perHash) ==
        [i \in DOMAIN known |-> Entry(known[i], CursorRange(known[i], perHash))]
      Known(convs, perHash) ==
        Entries(Newest({c \in convs : CursorRange(c, perHash).low > 0}), perHash)
      Of(convs) == Known(convs, TokensPerCodeHash(convs))
  IN  Of(CursorConversations(cursor))

-----------------------------------------------------------------------------
(* Antigravity: one database a conversation, with steps and a row [model,   *)
(* messages, tokens] per generation.                                       *)

(* blob.go: a stub row, without messages, carries no text.                  *)
GenerationText(row) == IF row.messages = 0 THEN 0 ELSE row.tokens

(* The largest row, since it holds the whole history.                       *)
Floor(rows) ==
  FoldLeft(LAMBDA n, r : IF GenerationText(r) > n THEN GenerationText(r) ELSE n, 0, rows)

(* readConversation; ok is false without a steps table.                     *)
AntigravityConversations(dbs) ==
  {[ id |-> id, at |-> dbs[id].at, steps |-> dbs[id].steps,
     generations |-> Len(dbs[id].rows), text |-> Floor(dbs[id].rows),
     model |-> DominantModel(
       SelectSeq([i \in DOMAIN dbs[id].rows |-> dbs[id].rows[i].model],
                 LAMBDA m : m # <<>>)) ] :
     id \in {i \in DOMAIN dbs : dbs[i].ok}}

TokensPerGeneration(convs) ==
  Pooled(convs, LAMBDA c : c.text, LAMBDA c : c.generations, DefaultTokensPerGeneration)

(* estimateRange of the antigravity adapter.                                *)
AntigravityRange(c, perGeneration) ==
  Range3(IF c.text > 0 THEN c.text
         ELSE IF c.generations > 0 THEN c.generations * perGeneration
         ELSE c.steps * TokensPerStepFloor)

AntigravityEntries(dbs) ==
  LET Entry(c, range) == [id |-> c.id, at |-> c.at, model |-> c.model] @@ range
      Entries(active, perGeneration) ==
        [i \in DOMAIN active |-> Entry(active[i], AntigravityRange(active[i], perGeneration))]
      Active(convs) == Newest({c \in convs : c.steps > 0 \/ c.generations > 0})
      Of(convs) == Entries(Active(convs), TokensPerGeneration(convs))
  IN  Of(AntigravityConversations(dbs))
=============================================================================
