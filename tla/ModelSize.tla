----------------------------- MODULE ModelSize -----------------------------
(***************************************************************************)
(* The estimate of a managed model's memory (server_memory.go, gguf.go):   *)
(* its weights on the disk, and a KV cache computed from the header of a   *)
(* GGUF file or an MLX config.json.  0 says unknown: the pool counts such  *)
(* a model against maxLoaded only.  Byte counts of a cache element are in  *)
(* 32nds.                                                                  *)
(***************************************************************************)
EXTENDS Naturals, Sequences, FiniteSets, SequencesExt

CONSTANTS
    Models,         \* the configured models and what the disk has of each
    MaxKVCount,     \* ggufMaxKVCount
    DefaultContext  \* the context when neither entry nor header has one

(***************************************************************************)
(* A model: its kind, memoryGB in bytes (0 when not set), the headroom of  *)
(* its section, ctx-size, the types of its caches, whether its entry has a *)
(* path and the path exists, and then the files of the directory, in its   *)
(* order, with the one named (a name is a sequence of parts with "-"       *)
(* between them, and what follows "-of-"), and a GGUF header; or the       *)
(* config.json of an MLX directory.                                        *)
(***************************************************************************)
VARIABLES
    model,      \* the model sized
    estimate    \* the bytes, <<>> before

sizeVars == <<model, estimate>>

SizeInit == model \in Models /\ estimate = <<>>

-----------------------------------------------------------------------------
(***************************************************************************)
(* The header of a GGUF file: a magic, a count and that many entries.  One *)
(* that cannot be read, too long or of a type unknown, fails the whole.    *)
(***************************************************************************)
Readable(e) == ~e.long /\ e.value.is \in {"int", "ints", "bools", "string", "other"}

ReadsWell(header) ==
    /\ header.magic /\ header.count <= MaxKVCount /\ header.count <= Len(header.entries)
    /\ \A i \in 1..header.count : Readable(header.entries[i])

\* A key given twice has its last value.
Metadata(header) ==
    LET read == SubSeq(header.entries, 1, header.count)
    IN  [k \in {e.key : e \in Range(read)} |-> read[SelectLastInSeq(read, LAMBDA e : e.key = k)].value]

\* Keys but this one begin with the architecture it names.
ArchKey(md, suffix) ==
    LET key == <<"general", "architecture">> IN
    <<IF key \in DOMAIN md /\ md[key].is = "string" THEN md[key].v ELSE "", suffix>>

Has(md, is, suffix) == ArchKey(md, suffix) \in DOMAIN md /\ md[ArchKey(md, suffix)].is = is
Get(md, is, suffix, default) == IF Has(md, is, suffix) THEN md[ArchKey(md, suffix)].v ELSE default

ArchInt(md, suffix, default) == Get(md, "int", suffix, default)
\* One value for every layer is a slice of one.
KVHeads(md) == IF Has(md, "int", "head_count_kv") THEN <<ArchInt(md, "head_count_kv", 0)>>
               ELSE Get(md, "ints", "head_count_kv", <<>>)

-----------------------------------------------------------------------------
(***************************************************************************)
(* What a header can hold: counts that are not negative, in files that are *)
(* not empty.                                                              *)
(***************************************************************************)
Typed(value) ==
    CASE value.is = "int" -> value.v \in Nat
      [] value.is = "ints" -> value.v \in Seq(Nat)
      [] value.is = "bools" -> value.v \in Seq(BOOLEAN)
      [] OTHER -> TRUE

ASSUME ModelSizeAssumption ==
    /\ DefaultContext \in Nat
    /\ \A m \in Models :
        /\ m.memory \in Nat /\ m.headroom \in Nat /\ m.ctx \in Nat
        /\ m.kind \in {"llama", "mlx", "splash"}
        /\ m.files \in Seq(Range(m.files)) /\ m.file.size \in Nat /\ m.file.name \in Seq(Range(m.file.name))
        /\ \A f \in Range(m.files) : f.size \in Nat /\ f.name \in Seq(Range(f.name))
        /\ m.kind = "llama" => m.file \in Range(m.files)
        /\ m.header.count \in Nat /\ m.header.entries \in Seq(Range(m.header.entries))
        /\ \A e \in Range(m.header.entries) : Typed(e.value)
        /\ ReadsWell(m.header) => m.file.size # 0
        /\ m.config.layers \in Nat /\ m.config.positions \in Nat /\ m.config.head_dim \in Nat
        /\ m.config.heads \in Nat /\ m.config.kv_heads \in Nat /\ m.config.hidden \in Nat

\* A loop that adds n numbers.
SumTo(n, s) ==
    LET sum[i \in 0..n] == IF i = 0 THEN 0 ELSE sum[i - 1] + s[i]
    IN  sum[n]

-----------------------------------------------------------------------------
(***************************************************************************)
(* The KV cache of a GGUF model                                            *)
(***************************************************************************)
BytesPerElem(type) ==
    CASE type = "f32" -> 128 [] type = "q8_0" -> 34 [] type = "q5_1" -> 24 [] type = "q5_0" -> 22
      [] type = "q4_1" -> 20 [] type \in {"q4_0", "iq4_nl"} -> 18 [] OTHER -> 64

Lengths(md) == Has(md, "int", "key_length") /\ Has(md, "int", "value_length")

GeometryKnown(md) ==
    LET heads == KVHeads(md)
        layers == ArchInt(md, "block_count", 0)
    IN  /\ layers > 0
        /\ Len(heads) = 1 \/ Len(heads) >= layers
        /\ \/ Lengths(md)
           \/ Has(md, "int", "embedding_length") /\ ArchInt(md, "head_count", 0) # 0

HeadDim(md, suffix) == IF Lengths(md) THEN ArchInt(md, suffix, 0)
                       ELSE ArchInt(md, "embedding_length", 0) \div ArchInt(md, "head_count", 0)

\* A layer keeps a window where the pattern says so.
Sliding_Everywhere(md, i) == ArchInt(md, "sliding_window", 0) > 0

Sliding(md, i) ==
    LET pattern == Get(md, "bools", "sliding_window_pattern", <<>>)
    IN  ArchInt(md, "sliding_window", 0) > 0 /\ i <= Len(pattern) /\ pattern[i]

VectorLength(md, i, length, lengthSWA) ==
    IF Sliding(md, i) THEN ArchInt(md, lengthSWA, HeadDim(md, length)) ELSE HeadDim(md, length)

LayerBytes(md, i, ctx, bk, bv) ==
    LET window == ArchInt(md, "sliding_window", 0)
        heads == KVHeads(md)
    IN  (IF Sliding(md, i) /\ window < ctx THEN window ELSE ctx)
        * heads[IF Len(heads) > 1 THEN i ELSE 1]
        * (VectorLength(md, i, "key_length", "key_length_swa") * bk
           + VectorLength(md, i, "value_length", "value_length_swa") * bv)

KVCacheBytes(md, ctx, bk, bv) ==
    LET layers == ArchInt(md, "block_count", 0)
    IN  SumTo(layers, [i \in 1..layers |-> LayerBytes(md, i, ctx, bk, bv)]) \div 32

-----------------------------------------------------------------------------
(***************************************************************************)
(* The estimators.  <<>> is an error.                                      *)
(***************************************************************************)
\* Of the files of the directory, those in S.
Total(m, S) == SumTo(Len(m.files), [k \in DOMAIN m.files |-> IF m.files[k] \in S THEN m.files[k].size ELSE 0])
Weights(m) == {f \in Range(m.files) : f.weights}

\* ggufShardSiblings: what matches the pattern, of whatever model.
Siblings(m) ==
    IF m.file.of = "none" \/ Len(m.file.name) < 2 THEN {m.file}
    ELSE {f \in Range(m.files) : f.of = m.file.of /\ IsPrefix(Front(m.file.name), f.name)
                          /\ Len(f.name) >= Len(m.file.name)}

Context(m, trained) == IF m.ctx > 0 THEN m.ctx ELSE IF trained > 0 THEN trained ELSE DefaultContext

EstimateLlama(m) ==
    LET md == Metadata(m.header) IN
    IF ~ReadsWell(m.header) \/ ~GeometryKnown(md) THEN <<>>
    ELSE <<Total(m, Siblings(m)) + KVCacheBytes(md, Context(m, ArchInt(md, "context_length", 0)),
                                             BytesPerElem(m.cacheK), BytesPerElem(m.cacheV))>>

\* Without a config.json, or a geometry in it, the weights alone.
EstimateMLX(m) ==
    LET weights == Total(m, Weights(m))
        c == m.config
        dim == IF c.head_dim # 0 \/ c.heads = 0 THEN c.head_dim ELSE c.hidden \div c.heads
        kvHeads == IF c.kv_heads = 0 THEN c.heads ELSE c.kv_heads
    IN  CASE ~m.dir -> <<m.file.size>>
          [] m.dir /\ weights = 0 -> <<>>
          [] OTHER -> <<weights + IF c.read THEN Context(m, c.positions) * c.layers * kvHeads * dim * 2 * 2 ELSE 0>>

EstimateModelMemory(m) ==
    LET e == IF m.kind = "mlx" THEN EstimateMLX(m) ELSE EstimateLlama(m)
        headroom == IF m.headroom <= 0 THEN 10 ELSE m.headroom
    IN  CASE m.memory > 0 -> m.memory
          [] m.memory = 0 /\ (m.kind = "splash" \/ ~m.path \/ ~m.exists) -> 0
          [] OTHER -> IF e = <<>> THEN 0 ELSE e[1] + (e[1] * headroom) \div 100

Size ==
    /\ estimate = <<>>
    /\ estimate' = <<EstimateModelMemory(model)>>
    /\ UNCHANGED model

SizeSpec == SizeInit /\ [][Size]_sizeVars

-----------------------------------------------------------------------------
(***************************************************************************)
(* The estimate against the cache counted cell by cell: one cell for each  *)
(* layer, head, place of a vector and token the layer keeps, a sliding     *)
(* layer no more than its window ("Ignoring this over-estimates Gemma 4",  *)
(* gguf.go:367).  A model is unknown when nothing sizes it and then only;  *)
(* otherwise it has its own shards and its cache, and no more unless the   *)
(* pattern of its shards matches another model's.                          *)
(***************************************************************************)
Slides(md, i) ==
    LET pattern == Get(md, "bools", "sliding_window_pattern", <<>>)
    IN  i \in DOMAIN pattern /\ pattern[i] /\ ArchInt(md, "sliding_window", 0) # 0

Kept(md, i, ctx) ==
    IF Slides(md, i) THEN {t \in 1..ctx : t + ArchInt(md, "sliding_window", 0) > ctx} ELSE 1..ctx

LayerCells(md, i, ctx, length, lengthSWA) ==
    LET heads == KVHeads(md)
        whole == HeadDim(md, length)
    IN  ({i} \X Kept(md, i, ctx))
        \X ((1..heads[IF Len(heads) = 1 THEN 1 ELSE i])
            \X (1..(IF Slides(md, i) THEN ArchInt(md, lengthSWA, whole) ELSE whole)))

Cells(md, ctx, length, lengthSWA) ==
    UNION {LayerCells(md, i, ctx, length, lengthSWA) : i \in 1..ArchInt(md, "block_count", 0)}

CacheNeeded(m) ==
    LET md == Metadata(m.header)
        ctx == Context(m, ArchInt(md, "context_length", 0))
    IN  (Cardinality(Cells(md, ctx, "key_length", "key_length_swa")) * BytesPerElem(m.cacheK)
         + Cardinality(Cells(md, ctx, "value_length", "value_length_swa")) * BytesPerElem(m.cacheV)) \div 32

\* "name-00001-of-00006": the parts before the number are its own.
OwnShards(m) ==
    {f \in Range(m.files) :
        \/ f = m.file
        \/ m.file.of # "none" /\ f.of = m.file.of /\ Len(m.file.name) > 1 /\ Front(f.name) = Front(m.file.name)}

Padded(m, bytes) == bytes + (bytes * (IF m.headroom = 0 THEN 10 ELSE m.headroom)) \div 100

Sizeable(m) ==
    CASE m.kind = "splash" -> FALSE
      [] m.kind = "mlx" -> m.path /\ m.exists /\ IF m.dir THEN \E f \in Weights(m) : f.size # 0 ELSE m.file.size # 0
      [] OTHER -> m.path /\ m.exists /\ ReadsWell(m.header) /\ GeometryKnown(Metadata(m.header))

EstimateHonest ==
    estimate # <<>> =>
        LET bytes == estimate[1]
            own == Total(model, OwnShards(model)) + CacheNeeded(model)
        IN  IF model.memory > 0 THEN bytes = model.memory
            ELSE /\ bytes # 0 <=> Sizeable(model)
                 /\ bytes # 0 /\ model.kind = "llama" =>
                       /\ bytes >= Padded(model, own)
                       /\ Siblings(model) = OwnShards(model) => bytes = Padded(model, own)
                 /\ bytes # 0 /\ model.kind = "mlx" =>
                       bytes >= Padded(model, IF model.dir THEN Total(model, Weights(model)) ELSE model.file.size)
=============================================================================
