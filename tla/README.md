# TLA+ models of go-pjs

go-pjs reads a Java Object Serialization stream (JOSSP version 5, optionally
preceded by one RMI packet byte) and prints its structure.  This directory
models the parts of the program that run on that input, and checks them with
TLC.

## The system

| Part | Code | What it does |
|---|---|---|
| Entry points | `src/unnamed/part_001` 22-54, 211-228, 1750-1772 | The function `ParseSerializedObject(buf)` builds a parser with `maxDataBlockSize = len(buf)`, runs `parseStream` and returns `nil, nil`. The exported method `SerializedObjectParser.ParseSerializedObject` checks `magic()` and `version()`, then calls `content(nil)` until `end()`. `ParseSerializedObjectMinimal` passes that method's result through `jsonFriendlyArray`. |
| Smooth cursor | `src/pkg/ClassDetailsImp.go` 285-310 | A one-byte lookahead (`peek`), `pop`, and `size() = maxDataBlockSize - nPos`. `nPos` counts only the bytes popped out of the lookahead. A read past the end yields 0, because the error of `binary.Read` is dropped. |
| Class model | `ClassDetailsImp.go` 10-282, `ClassFieldImp.go` | `ClassDataDesc` is a class followed by its super classes. Each `ClassDetails` keeps a name, a handle, flags and fields. The parser keeps every chain in `_classDataDescriptions`. |
| Tracing walker | `part_001` 244-1553 | A recursive descent that prints every element: `parseStream`, `readContentElement`, `readClassDesc`, `readNewObject`/`readClassData`, `readNewArray`, `readNewEnum`, `readNewClass`, the string, block and primitive readers. `newHandle1` numbers the handles from `0x7E0000`. |
| Value parser | `part_001` 1556-2306, `src/pkg/ph.go` | `content()`, `values()`, `parseObject` and the `knownParsers` table. `content()` peeks a tag, calls the tracing reader for it and returns nil. `values()` reads each field through the `primitiveHandlers` table of `ph.go`. Nothing calls `parseObject` or `values()`, so no input reaches them. |
| Post-processors | `part_001` 2309-2469 | Rewrite decoded lists, maps, sets, enum maps and dates. Only the value parser calls them. |
| jsonFriendly | `part_001` 58-130 | A pure conversion of decoded values: it drops `extends` keys and class descriptors from maps, and replaces a map by its `value`. |
| CLI | `src/main.go`, `src/unnamed/part_000` | Reads a file or a hex string and calls `ParseSerializedObject`. |

The walker is single-threaded and persists nothing. What makes it hard is the
input: arbitrary bytes drive a recursion whose state is spread over several
places:
- the lookahead byte;
- two position counters that disagree;
- the handle counter;
- the list of class chains.

The hazards (PROJECT.json) follow from that:
- loops that make no progress;
- handles taken in a particular order;
- an off-by-one lookup;
- 8-bit shift truncation of lengths and counts;
- reads past the end that return zeros.

## Modules

### `ClassDataDesc.tla`

Models the class model of `ClassDetailsImp.go`.
- A chain is a sequence of records `[name, handle, flags, fields]`. The Go nil `*ClassDataDesc` is `<<>>`.
- Class names are abstracted to what the walker tests of them: `""`, `"[I"`, `"[L"` and any other name (`"A"`).
- Field names and `className1` are only printed, so they are dropped. A field keeps its type code.
- Every setter and `addSuperClassDesc` is an operator. So is `buildClassDataDescFromIndex`, which ignores its index, as the code does.
- `ScanRef` (RECURSIVE) is the `TC_REFERENCE` loop of `readClassDesc`, with the code's `classIndex += 1` before the lookup.
- Every getter is an operator too, and the walker reads classes only through them. `getClassDetails` returns `NilClassDetails` past the end, as the Go code returns nil.

### `WireDecode.tla`

Operators for the code that turns popped bytes into numbers.
- `Decode16`, `Decode32` and `Decode64` are the sums of shifted bytes in `readUtf`, `readFields`, `readProxyClassDescInfo`, `readNewArray`, `readLongBlockData` and `readLongUtf`.
- `Uint8Shl` is Go's shift of a `uint8`: the result is still 8 bits wide, so `b1<<8` is 0.
- `DecodePrevObject` is `binary.BigEndian.Uint32`.
- `BigEndian` (RECURSIVE) is the reference: the value the format means by a big-endian byte sequence.

### `LengthDecoding.tla`

Checks one read at a time.
- **State:** `site` is the function that reads, `bytes` are the bytes it pops, and `value` is what it computes.
- `Init` offers every byte sequence of the site's width over `Bytes`.
- `Decode` applies the site's decoding.

It needs no stream, so it can offer lengths of 256 and more, which the walker model cannot reach.

### `ClassRegistry.tla`

The abstract specification of what the stream format promises of handles and class descriptors.
- **State:** `handles` is the sequence of kinds given handles. `classes` is the recorded chains, each as the handles of a class and its super classes.
- **`Assign`** gives out the next handle.
- **`Record`** records a class descriptor once. Its handle must have been given to a class descriptor, and its super chain must be one recorded before.

`SerializationDumper` instantiates it as `Registry`, with `handles <- handleLog` and `classes <- ClassChains` (`_classDataDescriptions` read through `getHandle`). `ImplementsClassRegistry == Registry!Spec` is checked as a PROPERTY.

### `PostProc.tla` and `MCPostProc.tla`

Model the post-processors as operators: `postProcSize`, `listPostProc`, `mapPostProc` with its loop `PairLoop`, `enumMapPostProc`, `hashSetPostProc` and `datePostProc`.
- The data slice is abstracted to what the code tests:
  - the `[]byte` block as its big-endian int32 words;
  - strings;
  - enum constants (maps whose `"value"` is a string);
  - any other value.
- A Go `map[string]T` is a TLA+ function. A `map[string]bool` is the set of its keys.
- `Init` chooses any slice of a bounded shape. There is one action per post-processor, and `Done` is the stutter after it.
- `datePostProc` keeps the int64 timestamp as its two words. Its `timestamp*int64(time.Millisecond)` is modelled by `NanosWrap`, the condition under which the product wraps in int64. The product itself is beyond TLC's integers, so a wrapped `time.Time` is marked as such.
- The properties compare the result with what the Java class's `writeObject` wrote: the elements, the key/value pairs, or the instant.
- `MCPostProc` gives the words (`-1..2`, and 2148, the high word of a Date after the year 2262), which a .cfg cannot write.

### `JsonFriendly.tla` and `MCJsonFriendly.tla`

Models `ParseSerializedObjectMinimal` and the mutually recursive `jsonFriendlyObject`, `jsonFriendlyArray` and `jsonFriendlyMap`.
- They are RECURSIVE operators over Go values.
- A value is a record tagged by its dynamic type: `nil`, a primitive, a `*clazz`, a slice, or a `map[string]interface{}` (a function from its keys).
- `Init` chooses any content list of one value up to a nesting depth, over the keys the code tests (`value`, `@`, `extends`).
- `Minimal` is one step: the conversion of that list.

### `PrimitiveValues.tla` and `MCPrimitiveValues.tla`

Models `values()` (`part_001` 2157-2184) with the `primitiveHandlers` table of `src/pkg/ph.go`.
- **State:** `fields` (type names), the loop index `i`, the reader position `pos`, `held` (`Smooth.data`), the stored `vals`, and `status`.
- **Number handlers (`ReadNumber`):** `binary.Read` of the handler's Go type from the `bufio.Reader`. With fewer bytes left, it takes them all and fails. `primitiveHandler` builds the value: signed conversions, `string(rune(x))` for `C` (U+FFFD for a surrogate), and `!= 0` for `Z`.
- **Object handlers (`ReadContent`, `ContentPanics`):** `L` and `[` call `content(nil)`.
  - `TC_NULL` is popped.
  - Another dispatched tag reads an element of any length, or panics. The element is abstracted: the tracing readers are SerializationDumper's.
  - Any other tag stays in `Smooth.data`.
- `UnknownType` is the "unknown field type" error.
- `SpecWidth` and `SpecValue` are the reference: the Java type's width and meaning.

### `SerializationDumper.tla`

Models the tracing walker and the Smooth cursor.

**State:**

| Variable | Code |
|---|---|
| `stack` | The Go call stack. Each frame has `proc`, the point `pc` it resumes at, and the locals `cdd`, `i` and `n`. |
| `peeked` | `Smooth.data` |
| `nPos` | `Smooth.nPos` |
| `consumed` | The reader's position in the input |
| `handleLog` | One entry per `newHandle1`, naming what took the handle. `_handleValue` is `baseWireHandle + Len(handleLog)`. |
| `classDescs` | `_classDataDescriptions` |
| `ret` | The value the last procedure returned: `readContentElement`'s error, or a chain |
| `lastRef` | The handle read by the last `readPrevObject` |
| `status` | `"running"`, `"done"`, or the reason of a panic |

**Actions.** A Go function that calls another is a procedure, and each action is the code between two of its calls. For example:
- `ReadTC_CLASSDESC` reads the name and the serialVersionUID, takes the handle and calls nothing.
- `ReadClassDescInfo` reads and validates the flags and the field count.
- `ReadFieldDesc` reads one field.
- `ReadClassAnnotation` runs the annotation loop.
- `ReadSuperClassDesc` joins the super chain and records it. This is the `append` of `readNewClassDesc`.

Functions that call nothing are operators run inside their caller's step: `readUtf`, `readPrevObject`, `readNullReference`, `readTC_STRING`, `readNewString`, the block and primitive readers. Each `Smooth.peek` is the step `Peek`, and the step after it dispatches on the buffered byte.

**Panics.** `log.Panicln`, nil dereferences and bad slices set `status` to a reason and keep the stack.

**Entry points.** The constant `Entries` chooses which of them `Init` starts:
- `parseStream`, the body of the function `ParseSerializedObject(buf)`;
- the exported method `ParseSerializedObject`, with its `magic()`, `version()`, `content()` loop and `end()`.

`content()` peeks a tag and hands it to the tracing reader for it. It does nothing for `TC_ENDBLOCKDATA`, `TC_RESET`, `TC_EXCEPTION` and unknown bytes.

**Terminated** is the stutter of the exited process.

**Input.** Each read draws its value from a small CONSTANT set:

| Constant | What it is |
|---|---|
| `Leads` | The first byte |
| `Magics` | The magic |
| `Versions` | The version |
| `Tags` | Every peeked type code |
| `Flags` | The class flags |
| `TypeCodes` | The field types |
| `Lengths` | Every length and count |
| `NameKinds` | Class names |
| `RefHandles` | The handles after `TC_REFERENCE` |

A read inside `InputLen` takes any value of its set. A read past the end takes 0, and a multi-byte read that straddles the end keeps only the bytes inside (`ReadAt`). Lengths and counts are decoded with WireDecode's operators, as the code decodes them.

**Fairness.** `WF_vars(Next)`. The walker is one goroutine that never waits, so while it has not exited it keeps taking steps. Weak fairness on the whole next-state relation says exactly that.

### `MCSerializationDumper.tla`

Gives the constants their values for each run. Each value is commented with the stream it makes possible.

## Runs

**Passing runs.** Each takes under two minutes with two workers.

| Run | Bounds | Checks |
|---|---|---|
| `dumper_objects` | 28 bytes. Objects, arrays, class and proxy descriptors, null, reference, end-block and one unknown byte. Names `A` and `[I`. Lengths 0 and 1. Flags `SERIALIZABLE` with and without `WRITE_METHOD`. Fields `I` and `L`. | `TypeOK`, `ImplementsClassRegistry` |
| `dumper_tags` | 19 bytes, from either entry point. All fifteen type codes, an unknown byte, a bad magic, every name kind. Versions 4, 5 and 0x0105. | `ImplementsClassRegistry` |
| `dumper_fields` | 34 bytes. An object whose class has one `Object` field, with a string or reference class name, and values that are strings, enums or objects. | `ImplementsClassRegistry` |
| `postproc_maps` | Blocks of up to 3 words over `-1..2`, followed by up to 4 elements (strings `a` and `b`, the same as enum constants, another value), or a non-block first element | `MapPostProcKeepsPairs`, `EnumMapPostProcKeepsPairs` |
| `jsonfriendly` | Content values of nesting depth 2: slices of up to 2 items, maps of up to 2 of the keys `value`, `@` and `extends`, leaves `nil`, primitive and `*clazz` | `MinimalIdempotent` |
| `values` | Classes of up to 2 fields of every handled type, `L`, `[` and an unknown name. 8 input bytes over `{0, 0x70, 0x73, 0xFF}` | `ValuesAsDeclared` |

Between them the dumper runs fire every action and every branch of the walker.

**What the passing runs show:**
- **`ImplementsClassRegistry`:** the walker's `handleLog` and `_classDataDescriptions` implement `ClassRegistry`. Handles are given out one at a time. Every chain `readNewClassDesc` appends is recorded once, under the handle `newHandle1` gave its own (proxy) descriptor, and is followed by a chain recorded before it. This holds even though strings, objects, annotations and super classes take handles and record classes while the descriptor is being read. `readClassData` walks a chain from its end, so this order is the order the stream wrote the class data.
  - It does not check *when* a descriptor takes its handle (line 417). `Record` accepts any class-descriptor handle not yet recorded, so a handle taken after the body would pass as well. That hazard has no property.
  - `TypeOK`, checked on `dumper_objects` only, bounds the reader position. It does not bound `nPos`.
- **`MinimalIdempotent`:** converting the minimal form again changes nothing (spec.md section 8). The promotion test of `jsonFriendlyObject` is made on the filtered map, so it agrees with what `jsonFriendlyMap` keeps.
- **`ValuesAsDeclared`:** when `values()` succeeds, each number field holds what its Java type means (signed bytes, shorts and ints, a char code, a boolean), read from exactly as many bytes as the type has. Each object field holds nil.
- **`MapPostProcKeepsPairs` and `EnumMapPostProcKeepsPairs`:** the map post-processors read the size at the byte where `HashMap` (after the capacity) and `EnumMap` write it. They accept a slice only if it holds that many pairs, and they keep exactly the pairs with a string key (or an enum-constant key).

**Why the bounds are enough.**
- 28 bytes hold the header, an object, its class descriptor with a proxy descriptor as super class, and its data.
- 34 bytes hold an object with one `Object` field and its value.
- Shorter streams are prefixes of these and are all explored.
- Depth 2 gives a map inside a map or slice, so a promoted `value` can itself be a map that is promoted or filtered.
- 8 bytes hold a `D` or `J` field, or two narrower fields. 0xFF gives negative numbers and a true `Z`. 0x70 and 0x73 are `TC_NULL` and a dispatched tag.
- For the post-processors, sizes up to 2 and four elements give two pairs, so a key can repeat. They also reach the `size > 1` branches, slices that are one element short or long, and negative sizes.

**Violation runs.** Each checks one property that the code's comments, spec.md or the Java class layout state.

| Run | Property | What TLC finds |
|---|---|---|
| `dumper_terminates` | `ParserTerminates` | `AC ED 00 05 74`: the `TC_STRING` case of `readContentElement` is empty (Go has no fallthrough), so the tag is never consumed and `parseStream` loops for ever. Through the method, a top-level `TC_ENDBLOCKDATA` with more input after it stays in `Smooth.data`; `end()` tests only the `bufio.Reader`, so the `content()` loop never ends. |
| `dumper_wellformed` | `ClassesAndArraysRead` (`ClassDescRefResolves` and `PrimitiveArrayElementsRead`) | Two streams within 31 bytes. In the first, a proxy descriptor is followed by an object whose class is `TC_REFERENCE 0x7E0000`. The lookup's `classIndex += 1` runs before `getClassDetails`, so it dereferences nil, and every class-descriptor back-reference panics. In the second, an `int[]` has its elements dispatched on `name[0:1]`, which is `'['`, so `readArrayField` is called on an int and panics. Each conjunct alone is also violated under this cfg. |
| `dumper_version` | `VersionChecked` | A version 4 stream is walked by `parseStream`: the code only prints a warning, and spec.md says `BadVersion`. The method's `version()` compares only `byte(ver)`, so it accepts 0x0105. |
| `length_decoding` | `DecodedAsWritten` | `readUtf` reads the length bytes `01 01` as 1, not 257. `b1<<8` on a `uint8` is 0, so every shift-decoded length and count keeps only its last byte. |
| `postproc_elements` | `PostProcKeepsWritten` | The trace TLC reports is a Date whose block holds the words 2148 and -1: `timestamp*int64(time.Millisecond)` wraps in int64 (line 2466), so a date after the year 2262 is read as a different instant. Each conjunct is also violated on its own under this cfg. `ListPostProcKeepsElements` fails on an `ArrayList` of one element, which becomes an empty list because `data[1:size]` stops one short. `HashSetPostProcKeepsElements` fails on a `HashSet`, which loses its last element the same way. |
| `values_stream` | `ValuesReadAsWritten` | A `C` field of bytes D8 00 holds U+FFFD, because `string(rune(x))` rejects a surrogate. With `ValuesAsDeclared'` left out of the action, an `L` field whose tag `content()` leaves in `Smooth.data` is followed by a `B` field that reads the byte after that tag. This run offers `C`, `L` and `B` fields over the bytes 0, 0xD8 and 0x78, on 4 bytes. |

**Mutants** (in PROJECT.json). Each passing property is shown to catch a plausible bug:

| Mutant | Property that catches it |
|---|---|
| A reader position that runs past the end (`SkipPastEnd`) | `TypeOK` (`dumper_objects`) |
| `newHandle1` returning the incremented value (`handleValueIncremented`) | `ImplementsClassRegistry` (`dumper_tags`) |
| The super chain put before the class (`addSuperClassDescFirst`) | `ImplementsClassRegistry` (`dumper_objects`) |
| `setHandle` not storing the handle (`setHandleDropped`) | `ImplementsClassRegistry` (`dumper_fields`) |
| The single-key test made on the unfiltered map (`jsonFriendlyObjectRawLen`) | `MinimalIdempotent` |
| `Z` true only for a positive byte (`primitiveHandlerZPositive`) | `ValuesAsDeclared` |
| `mapPostProc` reading the size at offset 0 (`mapPostProcOffset0`) | `MapPostProcKeepsPairs` |
| `enumMapPostProc` reading the size at offset 4 (`enumMapPostProcOffset4`) | `EnumMapPostProcKeepsPairs` |

## Latent divergences

TLC found these while modelling. Each is in code that only the value parser reaches. They are recorded here and as hazards rather than as runs of their own.
- **Class descriptors kept.** `jsonFriendlyObject` returns a `*clazz` unchanged when it is a top-level content element or a slice element. spec.md section 8 (invariant 4) says the minimal form keeps no class descriptor.
- **Extra fields dropped.** `jsonFriendlyObject` promotes `value` whenever `@` is present, whatever other keys remain. spec.md section 6 unwraps only `{value}` and `{value, @}`.

The `values` run offers no surrogate byte. The surrogate divergence is shown by `values_stream`.

## Not modelled, and the plan

**Out of the model:**
- Printing and indentation.
- The CLI, which is pure I/O.
- The rest of the value parser: `parseObject`, `classDesc`, `classData` and the `knownParsers` dispatch. Nothing calls them. Only `values()` with its handler table and `content()` are modelled.
- `setName`, `setClassName1`, `setLastFieldName` and `setLastFieldClassName1`. They store strings that are only printed.

**Planned next:**
1. **The rest of the value parser.** A module for its handle table and recursive class data, shown to implement `ClassRegistry` too.
