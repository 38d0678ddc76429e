# Verification of eosio.cdt: TLA+ models, TLC runs and TLAPS proofs

This directory holds TLA+ models of the parts of eosio.cdt (the contract
development toolkit under `src/`) that have state or arithmetic worth checking.
It also holds TLC configurations that model-check those models on small
instances, and TLAPS proofs that hold for every value of the constants.
`PROJECT.json` is the machine-readable index of the project:
- the components;
- the runs;
- the mutants;
- the map from every definition to the source lines it models;
- the findings;
- the hazards;
- the theorems.

## 1. The system and its parts

| Part | Source | What it is | Status |
|---|---|---|---|
| `uint256_t` | `libraries/eosiolib/core/eosio/uint256_t.hpp` | A 256-bit unsigned value held as 4 `uint64_t` limbs, with assignment, `++`/`--`, `~`, unary `-`, `+= -= ^= &= \|=` (256-bit and `uint64_t` operands), `<<=`, `>>=`, the `int32_t`/`uint32_t` shift wrappers, `bool`, the six comparisons and the DataStream `<<`/`>>` | modelled (the const `operator&` returning `uint64_t` changes nothing and is left out) |
| Name text encoding (tools) | `tools/include/eosio/utils.hpp` | `char_to_symbol`, `string_to_name` (packs up to 20 characters, 6 bits each, into a `uint128_t`), `validate_name`, `name_to_string` | modelled |
| Tool environment | `tools/include/eosio/utils.hpp` | `environment::get`, `exec_subprogram` | not modelled: process I/O |
| Singleton table | `libraries/eosiolib/contracts/eosio/singleton.hpp` | One row per scope in a `multi_index` table: `exists`, `get`, `get_or_default`, `get_or_create`, `set`, `remove` | modelled |
| Byte-stream codec | `datastream.hpp` is not in this tree (only `tests/unit/datastream_tests.cpp`); the `uint256_t` codec is in `uint256_t.hpp` | Bounded and counting cursors (`skip`, `seekp`, `write`, `read`, `put`, `get`, `remaining`, `valid`), and `pack`/`unpack` of a `uint256_t` | partly: the cursor is spec-modelled from `spec.md`; the type-dispatch rules for other types are in headers not in this tree |
| `producer_schedule` | `libraries/eosiolib/contracts/eosio/producer_schedule.hpp` | Plain data | not modelled: no operations |
| Example contracts | `examples/*`, `tools/toolchain-tester/examples/*`, `tests/unit/test_contracts/transfer.hpp` | `multi_index_example` sets, prints, lists and modifies table rows; `hello`, `hello_world`, `send_inline` and `transfer` only print or forward | partly: `multi_index_example` is modelled; the others hold no state. Its header's `del` is declared but never defined |

How the parts interact:
- `uint256_t` is a table key. The singleton's primary key `pk_value` is a
  `uint256_t`, and `multi_index` orders rows by such keys, so the order that
  `uint256_t`'s comparisons define matters to them (finding 3).
- `uint256_t` is one of the codec's types. Its `<<` and `>>` write and read
  the four limbs through the cursor (`U256Stream`).
- The singleton and the example contract both use the `multi_index` table
  interface. That interface is not in this tree, so `MultiIndex` models it
  from its documented behaviour:
  - `find` by primary key;
  - `emplace`, which aborts on a duplicate key;
  - `modify`, which must keep the primary key;
  - `erase`.
- The name tools run at compile time, in the ABI generator.

## 2. Modules

| Module | Models | State and actions |
|---|---|---|
| `U256` | `uint256_t.hpp` | Operators only. There is one limb-level operator per `uint64_t` operation the code uses, each wrapping at `LimbBits` bits, and one operator per `uint256_t` operator. |
| `U256Register` | A `uint256_t` lvalue | `x` (four limbs) and a history variable `op`. There is one action per mutating operator. `ShlI32`/`ShrI32` are the `int32_t` wrappers: the count is converted to `unsigned int` modulo `UCount` (`2^32` in the code). |
| `U256Abstract` | What `uint256_t` promises (spec.md §3) | An integer `n` modulo `2^Width`, on which every operation is the mathematical one. Used by TLC only (it uses Bitwise). |
| `MC_U256` | The model instance | `LimbBits = 2` (an 8-bit value) and `UCount = 16`. The refinement mapping is `n <- Val(x)`. |
| `U256_proofs` | Proofs | Type correctness of `U256Register`. |
| `Names`, `MC_Names` | `validate_name`, `string_to_name`, `char_to_symbol` | `str` and `result`. `ValidateName` is the whole function. |
| `NameToString`, `MC_NameToString` | `name_to_string`, `trim_right_dots` | `Indices` gives the 6-bit group each of the 43 characters is read from (`-1` for the two positions never written). `Decode` looks each group up in charmap: group 50 reads the NUL, groups 51..63 read a nondeterministic `Garbage` byte. There are two specs: `DecodeSpec` decodes arbitrary limbs, and `RoundSpec` validates a name and then decodes its packed value. |
| `Datastream`, `MC_Datastream` | The cursor of spec.md §4.1 (spec-modelled) | `mem` holds the storage and `Slack` bytes on each side; the other state is `pos`, `lim`, `status`, `out` and the counter `cnt`. There is one action per operation, and a failed read or write is the fatal `out_of_range`. |
| `U256Stream`, `MC_U256Stream` | `pack`/`unpack` of a `uint256_t` (`uint256_t.hpp` 292–306 over the cursor) | `phase`, `val`, `i` and `got`. `SizeLimb` runs on the counting cursor, `PackLimb` is one `ds << t.value[i]`, and `UnpackLimb` is one `ds >> t.value[i]`. The unpack may read from a truncated prefix. |
| `CodecAbstract` | What the codec promises (spec.md §6–7) | `aphase`, `aval`, `alen` and `aret`. `serialize(v)` is one step; `deserialize` of a source of `len` bytes returns the value when `len >= Size` and otherwise fails with no value returned. |
| `U256Stream_proofs` | Proofs | The codec round trip and the refinement of `CodecAbstract`. |
| `MultiIndex` | The `multi_index` interface (spec-modelled) | Operators on a set of rows keyed by field `pk`. |
| `Singleton`, `MC_Singleton` | `singleton.hpp` | `tables` (the rows of each scope) and `ret` (the last call's name, completion and value). There is one action per method. An aborted call (`get` with no row) leaves the tables unchanged. |
| `SingletonAbstract` | The promise in `singleton.hpp`'s comments | One optional value per scope. |
| `Singleton_proofs` | Proofs | The one-row invariant and the refinement. |
| `MultiIndexExample`, `MC_MultiIndexExample` | `multi_index_example.cpp`/`.hpp` | `testtab`, `printed`, `status` and `last`. The actions are `SetUser`, `PrintUser`, `Bysec` and `Mod`. `SetUser` keeps emplace's uniqueness abort; it is dead, because `find(user.value)` and `primary_key()` look up the same key (lemma `FindMissEmplaces`). `Bysec` walks the `secid` index, which is ordered by secondary and then primary key, and prints the row its primary key finds. The walk is `IndexWalk`: its `k`-th row is the one with `k - 1` rows before it in the index (`IndexRank`). This is the order TLC's sort would give, written so that the provers can read it, since they cannot see inside `SortSeq`. It ignores its `secid` argument, as the code does. |
| `MultiIndexExample_proofs` | Proofs | Unique keys, `bysec` printing every row in index order, and the action property on rows. |

Limbs and bytes are modelled as bit vectors, not as integers. The model runs
at a small width, every limb operation keeps the machine's wrap-around, and
the operators stay non-recursive, so TLAPS can reason about them.

## 3. Runs

| Run | Config | Expect | Checks |
|---|---|---|---|
| `u256_type` | `MC_U256.cfg` | pass | `TypeOK` over every operator, operand and shift count (14,208 states) |
| `u256_exact` | `MC_U256_exact.cfg` | pass | `RefinesModular`: the assignments, `++ -- ~ -`, the bitwise operators, both shifts and the `int32_t` wrappers refine `U256Abstract` (6,976 states) |
| `u256_addsub` | `MC_U256_addsub.cfg` | violation | `RefinesModular` for `+= -=`: the carry is lost |
| `u256_and64` | `MC_U256_and64.cfg` | violation | `RefinesModular` for `&=(uint64_t)`: the high limbs are kept |
| `u256_compare` | `MC_U256_compare.cfg` | violation | `ComparisonsMatchMagnitude`: `<`/`>` are not the order of the value |
| `names_round_trip` | `MC_NameToString.cfg` | pass | `AcceptsExactlyNormalizedNames` and `DecodesValidatedNames`: `validate_name` then `name_to_string` returns the name, except that `""` decodes to 43 dots (14,978 states) |
| `names_charmap` | `MC_NameToString_charmap.cfg` | violation | `ReturnsCharmapText`: a group ≥ 50 reads past charmap |
| `datastream_negative_skip` | `MC_Datastream_start.cfg` | violation | `NoWriteBeforeStart`: `skip(-1)` followed by a write lands before the start |
| `u256_codec` | `MC_U256Stream.cfg` | pass | `CodecRoundTrip`: pack never fails, a full unpack returns the value, and a truncated unpack fails. `IInv`: the inductive invariant of the proof. `CodecRefines`: pack/unpack implement `CodecAbstract` (130 states) |
| `singleton_refines` | `MC_Singleton.cfg` | pass | `Refines`: the singleton implements `SingletonAbstract` (130 states) |
| `example_actions` | `MC_MultiIndexExample.cfg` | pass | `BysecPrintsEveryRow`, and the action property `RowsChangeOnlyByMod`: no action removes a row and only `mod` of its own key changes one (673 states) |

### Bounds

- **`uint256_t`.** With 2-bit limbs, all four limbs carry, borrow and shift
  into each other, including a ripple through all four (`0xFF + 1`).
  - Shift counts run over `0..9`: zero, whole limbs, counts that cross a
    limb, and counts past the width.
  - The `int32_t` counts are `-1`, `-3` and `-12`. Modulo 16 they become 15
    and 13 (past the 8-bit width) and 4 (inside it).
- **Names.** `NameLen = 3` stands for 20, so limbs have
  `W = 3*NameLen + 4` bits (64 for 20).
  - The alphabet has one character of each of `char_to_symbol`'s classes:
    NUL, `.`, `-`, a digit, lower and upper case letters, `_` (one of the
    twelve punctuation cases, which share one table) and `!` (unknown). The
    other eleven punctuation characters are not in the run.
  - The direct limb inputs have groups 13, 50 and 63, one in each charmap
    class.
- **Datastream.** Capacity 3 and one slack byte on each side, so an overrun
  by one byte is visible.
  - Writes are up to 2 bytes, over bytes `{0,1}`.
  - Skips are ±1, and the counter runs to 3.
  - The cursor alone is checked only by `datastream_negative_skip`. Its
    code is not in this tree, and "a write never passes the end" would only
    restate the `remaining() >= n` guard written from spec.md. The codec
    runs check the cursor as `pack` and `unpack` use it.
- **Codec.** Byte = 1 bit and limb = 2 bits, so a limb is 2 bytes and the
  value is 8 bytes.
  - Every prefix length 0..8 is unpacked.
  - The values are 27, 228 and 0: each limb differs from its neighbours.
- **Singleton.** Two scopes and three values, one of them `T()`. That is
  enough for a `set` on one scope to be observed by a `get` on the other.
  The depth reaches every set/remove/get order on one scope.
- **Example.** Three users, with name values 1, 3 and 5 around
  `"second"_n = 4`, and `n \in {0, 7}`. A `mod` moves a row both before
  and after the rows that are still at `"second"`.

### Findings (`PROJECT.json`)

1. `uint256_t.hpp:72` (code_bug): the carry is computed in `uint64_t` and is
   always 0.
2. `uint256_t.hpp:168` (code_bug): `&=(uint64_t)` does not clear limbs 1–3.
3. `uint256_t.hpp:242` (code_bug): `<` and `>` hold when any limb compares so.
4. `datastream_tests.cpp:78` (spec_gap): `skip` takes a signed count with no
   check, and `write` only checks `end - pos >= n`. So `skip(-1)` at the
   start followed by `put` writes the byte before the buffer. This breaks
   the position invariant of spec.md §3.
5. `utils.hpp:116` (code_bug): `charmap[tmp & 0x3f]` indexes a 50-character
   literal with values up to 63, and returns a NUL or bytes past the literal.

### Mutants

Each property of a passing run is broken by a plausible bug in the mapped
code:

| Property | Mutant | The bug |
|---|---|---|
| `TypeOK` | `AddLimbsUnreduced` | a limb sum not reduced to the limb width |
| `RefinesModular` | `IncNoRipple` | `++` stops after limb 0 |
| `AcceptsExactlyNormalizedNames` | `ValidateNameOffByOne` | `len >= 20` |
| `DecodesValidatedNames` | `IndicesNoShift` | the initial `tmp >>= 4` is missing |
| `CodecRoundTrip` | `UnpackLimbReversed` | the limbs are read back most significant first |
| `Refines` | `SetAlwaysEmplace` | `set` without the find |
| `BysecPrintsEveryRow` | `BysecShort` | the loop stops one row early |
| `IInv` (codec) | `PackLimbReversed` | the limbs are written most significant first |
| `CodecRefines` | `ReadOffByOne` | `remaining() + 1 >= n` in `read` |
| `RowsChangeOnlyByMod` | `SetUserResets` | `set` of a found user resets its row to `{user, "second", 0}` |

## 4. Fairness and liveness

No run assumes fairness, and no liveness property is stated. Every modelled
operation is synchronous code that returns:
- a contract action runs to completion or aborts;
- the cursor and the codec are straight-line loops;
- nothing waits.

Deadlock checking stays on. Each spec ends in a stutter step that the code
justifies:
- `Names` and `NameToString` stop once the function has returned;
- the cursor stops after a fatal failure;
- the codec stops once `unpack` has returned.

The singleton and the example contract can always take another call.

## 5. Proofs (TLAPS)

- **`U256_proofs.TypeCorrect`: `Spec => []TypeOK`.** It holds for every
  `LimbBits` and every operand set (`LimbBitsAssumption`,
  `OperandsAssumption`, `UCount \in Nat \ {0}`).
  - `TypeOK` is inductive as it stands.
  - The limb lemmas `LimbUnaryType`, `LimbBinaryType` and `LimbShiftType`
    are lifted to four limbs.
  - The inductive step has one case per action group. The `int32_t`
    wrappers need only `s % UCount \in Nat`.
- **`Singleton_proofs.TypeCorrect`: `Spec => [](TypeOK /\ OneRow)`.**
  - `OneRow` says that every scope's table is `{}` or `{Row(v)}`.
  - The effect lemmas `SetEffect`, `GetOrCreateEffect` and `RemoveEffect`
    give each method's result on such a table: because `find(pk_value)`
    sees the only row, `set` modifies when there is a row and emplaces when
    there is none.
- **`Singleton_proofs.Refinement`: `Spec => Refines` (= `A!ASpec`).**
  - The refinement mapping is
    `regBar[s] = IF find misses THEN Absent ELSE itr->value`.
  - `InitRefines`: the initial state maps to `AInit`.
  - `StepRefines`: under `IInv`, each method's step is the abstract step of
    the same method, scope and argument, with the same return. It has one
    case per method, resting on `FoundRow`, `RegBarStep` and
    `RegBarUnchanged`.

- **`U256Stream_proofs.CodecRoundTripHolds`: `CodecSpec => []CodecRoundTrip`.**
  It holds for every `LimbBits`, `ByteBits`, `Cap`, `Slack` and value set,
  under `U256StreamAssumption`. That assumption includes
  `WIDTH * LimbBytes <= Cap`: `pack` allocates a buffer of `pack_size(v)`
  bytes, so the storage holds the packed size.
  - `CodecRoundTrip` is not inductive: it says nothing of the cursor or the
    bytes. The inductive invariant `IInv` states, per phase, where the
    loops are. In `size`, `cnt = i * LimbBytes`. In `pack`,
    `lim = pack_size`, `pos = i * LimbBytes` and the storage holds the
    little-endian bytes of limbs `0..i-1` (`Holds(i)`). In `unpack`,
    `pos = i * LimbBytes <= lim`, the storage holds all four limbs and
    `got` agrees with `val` on limbs `0..i-1`.
  - `WriteLimb`: one `operator<<` write succeeds and extends `Holds`.
    `ReadLimb`: one successful read returns the limb written
    (`BytesRoundTrip`: `BytesToLimb(LimbToBytes(l)) = l` for every width).
  - The arithmetic of offsets (`DivModBlock`, `Digits`, `NextBlock`,
    `RoomForLimb`) is stated over fresh naturals. The non-linear facts of
    the constants are one lemma (`CodecConstants`), cited only where needed.
  - `CodecIInvHolds` states `CodecSpec => []IInv` itself, the invariant
    the `u256_codec` run checks.
- **`U256Stream_proofs.CodecRefinement`: `CodecSpec => CodecRefines`.**
  - The mapping (`CodecPhase` in `U256Stream`):
    - `pack` before the fourth write is `idle`, and after it `serialized`;
    - `unpack` is `deserializing` until the fourth read (`returned`) or a
      failed read (`failed`);
    - `alen` is the `len` of `datastream ds(buffer, len)`.
  - `StepRefines` has one case per action, under `RInv == IInv /\ val \in Values`:
    - the fourth write is `ASerialize(val)`;
    - `OpenUnpack(len)` is `AOpen(len)`;
    - the fourth read is `ADeserialize`, because `pos' = pack_size <= lim`
      and `UnpackInv'` gives `got' = val`;
    - a failed read is `AFail`, because `lim - i * LimbBytes < LimbBytes`
      gives `lim < pack_size`;
    - every other step is a stutter.
- **`MultiIndexExample_proofs.KeysStayUnique`: `Spec => []KeysUnique`.**
  It holds for every set of users, `"second"_n` and `mod` arguments.
  - The inductive invariant `TableInv` is the row type and `KeysUnique`.
  - `FindMissEmplaces` says that when `find(user)` misses, emplace's
    uniqueness check passes, so `SetEffect` gives `set` with no abort.
    `EmplaceUnique` and `ModifyUnique` say that `set`'s guarded emplace and
    `mod`'s key-preserving modify keep keys unique.
- **`MultiIndexExample_proofs.BysecPrintsEveryRowHolds`:
  `Spec => []BysecPrintsEveryRow`.** It holds for every set of users, `"second"_n` and `mod` arguments.
  - `BysecPrintsEveryRow` speaks only of the state after a `bysec`, so it
    is not inductive. `IInv == TableInv /\ IsFiniteSet(testtab) /\
    BysecPrintsEveryRow` is: `emplace` adds one row and `modify` replaces
    one, so the table stays finite (`FS_AddElement`, `FS_RemoveElement`).
    Every other action sets `last.op` to something other than `bysec`.
  - The rank lemmas are about any finite set `S` of rows with unique
    primary keys (`IndexedTable`). `IndexOrder` says the index order is a
    strict total order on distinct rows. `RankRange` puts every rank in
    `0 .. Cardinality(S) - 1`. By `RankMonotone` a row earlier in the index
    has a smaller rank, so ranks are injective (`RankInjective`). Then
    `FS_Injection` on the finite interval gives onto (`RankOnto`). None of
    this needs induction over data.
  - `IndexWalkProps`: the walk has `Cardinality(S)` entries, visits every
    row, and each row precedes the next in the index.
  - `BysecPrints`: with unique keys, `print(itr->test_primary)` finds
    exactly the row the iterator is at, so `printed` is the walk.
- **`MultiIndexExample_proofs.RowsChangeOnlyByModHolds`:
  `Spec => RowsChangeOnlyByMod`.** This action property needs no
  invariant. Each action's step keeps every row, and `ModifyKeeps` gives
  `mod`'s rewritten row the old key.

The following are checked only by TLC:
- **The `uint256_t` refinement and comparisons.** They need `Val`, and
  facts about what `+` or `<<` compute for every input need induction over
  the bits, which the provers here cannot instantiate. `U256Abstract`
  uses Bitwise, which no theorem module may reach.
- **The names properties** (`AcceptsExactlyNormalizedNames`,
  `DecodesValidatedNames`). `Names` uses Bitwise and a RECURSIVE walk over
  the characters, which no theorem module may reach. Even written as a
  recursive function, a statement about every string needs induction over
  its length, which the provers here cannot instantiate.
- **`NoWriteBeforeStart` and `ReturnsCharmapText`.** They are false.

Liveness is not proved, because there is none to prove.

## 6. Not modelled, and what could come next

- **`producer_schedule`, `hello`, `send_inline`, `transfer`.** They hold no
  state and take no decisions.
- **`environment` and `exec_subprogram`.** They are process I/O.
- **The codec's type dispatch for containers, optionals, variants and
  aggregates.** It lives in headers that are not in this tree.
- **Possible next steps:**
  - limb-level lemmas such as `Not(Not(x)) = x` and `XorLimbs` involution;
  - a codec for a second type;
  - a proof of the `Names` properties. That needs the bit operations
    written without Bitwise, and induction over characters, which these
    provers cannot do.
