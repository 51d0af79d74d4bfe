# Model checking the Borked3DS rasterizer surface cache, draw uploads and unique data

This directory holds TLA+ models of three parts of Borked3DS. The models are checked with TLC.
- The GPU-memory coherence core (`src/src/video_core/rasterizer_cache/rasterizer_cache.h`) and its callers in the OpenGL rasterizer.
- The OpenGL stream buffer and the LUT and uniform uploads `Draw` makes through it (`renderer_opengl/gl_stream_buffer.cpp`, `gl_rasterizer.cpp`).
- The load-once caches of the console's unique data (`core/hw/unique_data.cpp`).

Run a check from this directory:

```
tlc -workers 2 -config MCRasterizerCache_coherence.cfg MCRasterizerCache
```

## 1. The system

The emulator keeps GPU copies (*surfaces*) of regions of guest physical memory.
It must keep those copies, guest memory and what the guest last wrote consistent.

| Part | Source | State | Operations |
|---|---|---|---|
| Surface registry | `rasterizer_cache.h` (`slot_surfaces`, `sentenced`) | slots of surfaces; sentenced `(id, tick)` list; `frame_tick` | `CreateSurface` (recycles a sentenced surface with equal params), `UnregisterSurface` (sentences, or erases a fill surface), `RunGarbageCollector`, `UnregisterAll` |
| Page table | `rasterizer_cache.h` (`page_table`, `cached_pages`) | page → list of surface ids; page → reference count; memory's "rasterizer cached" page marks | `RegisterSurface`, `UnregisterSurface`, `UpdatePagesCachedCount`, `ForEachSurfaceInRegion` |
| Dirty regions | `rasterizer_cache.h` (`dirty_regions`) | interval map: byte → surface that owns the newest data | `FlushRegion` (download and release), `InvalidateRegion` (take or drop ownership) |
| Matcher | `FindMatch` plus `SurfaceBase` predicates (outside `src/`) | none | Exact / SubRect / Copy / Reinterpret / TexCopy matches under a scale policy |
| Validation | `ValidateSurface`, `ValidateByReinterpretation`, `CopySurface`, `UploadSurface` | surface invalid regions | fill invalid runs by copy, then by reinterpretation, then by flush and upload |
| Requests | `GetSurface`, `GetSurfaceSubRect`, `GetTextureSurface`, `GetTextureCube`, `GetFramebufferSurfaces`, `GetTexCopySurface` | framebuffer and cube caches | look up or create, then validate |
| Accelerated transfers | `AccelerateFill`, `AccelerateTextureCopy`, `AccelerateDisplayTransfer` | `forceFallBackToSW` | GPU-side fill, copy and blit, then take ownership of the destination |
| Frame hook | `TickFrame` | filter, resolution scale, custom-texture toggle | collect garbage; drop everything on a settings change |
| OpenGL rasterizer | `renderer_opengl/gl_rasterizer.cpp` | LUT and uniform offsets, dirty flags | the `FlushRegion`/`InvalidateRegion` entry points memory calls; `Draw` (framebuffers, textures, LUTs, uniforms, vertices) |
| Stream buffer | `renderer_opengl/gl_stream_buffer.cpp` | `buffer_pos`, `mapped_size`, persistent mapping | `Map` (align, wrap, orphan), `Unmap` (flush, advance) |
| Unique data | `core/hw/unique_data.cpp` | cached SecureInfoA, LFCS, OTP, movable; loaded and signature flags | `Load*`, `Load*File`, `InvalidateSecureData` |

The other files under `src/` are declarations, a Qt dialog, service
registration and one applet message exchange; see §6.

**How the parts interact.**
- Guest memory calls into the cache.
  - Before a CPU write to a page marked cached, memory calls `InvalidateRegion`.
  - Before a CPU read of such a page, it calls `FlushRegion`.
  - Memory marks pages only when `UpdatePagesCachedCount` tells it to.
  - So correct marking is what makes the CPU path reach the cache at all.
- The draw path asks the cache for surfaces:
  - `GetFramebufferSurfaces` for render targets;
  - `GetTextureSurface` from `SyncTextureUnits` for textures.
  - After a draw, the render target takes ownership of what it drew (`InvalidateRegion` with an owner).
- `TickFrame` runs once per frame. It ages sentenced surfaces and erases them after `RemoveThreshold` ticks.
- Before each draw, `Draw` brings the shader inputs up to date:
  - It updates the scissor uniforms.
  - `SyncAndUploadLUTs` and `SyncAndUploadLUTsLF` copy each dirty LUT (proctex, lighting, fog) whose contents changed into a stream buffer. The LUT's offset is recorded in the FS uniform block.
  - `UploadUniforms` copies the dirty uniform blocks into the uniform stream buffer and binds them.
  - A stream buffer that wraps orphans its storage, so every user rewrites all it needs in that same map.
  - On GLES without `OES_texture_buffer`, the LUTs go into 2D textures instead.

**What is hard here.**
- Ownership moves between memory and surfaces through long chains of calls. For example:
  - `ValidateSurface` → `FlushRegion` → `DownloadFillSurface`;
  - `InvalidateRegion` → `FlushRegion` → `UnregisterSurface`.
- Surface lifetime depends on a tick-based collector and on recycling.
- Page marks depend on reference-count transitions.
- Several heuristics trade accuracy for speed:
  - small CPU accesses flush a whole dirty segment;
  - `skip_cpu_write`;
  - the stride shortcut in `ValidateByReinterpretation`.
- These are reached only by particular sequences of draws, fills, CPU accesses and frames that no unit test writes down.

## 2. Modules

### `RasterizerCache.tla`: the surface cache

**State.** The state variables mirror the cache's members:

| Variable | Meaning |
|---|---|
| `surfaces` | `slot_surfaces`: lo, hi, format, type, stride, res_scale, invalid units, per-unit contents, fill value, Registered flag |
| `page_table` | `page_table` |
| `cached_pages` | `cached_pages` |
| `marked` | the pages memory was told are cached |
| `dirty_regions` | `dirty_regions` |
| `sentenced` | `sentenced` |
| `frame_tick` | `frame_tick` |
| `filter`, `scale_factor` | the texture filter and resolution scale |
| `mem` | guest memory |
| `force_fallback` | `forceFallBackToSW`, the title hack's counter (`FallbackCalls` stands for its 100) |
| `fbs` | the attachments `framebuffers` holds a framebuffer for (one attachment per draw, so the surface id is the key) |
| `cube` | the entry of `texture_cube_cache` for the model's one `TextureCubeConfig`: whether it exists, its `surface_id` and its `face_ids` |

Two ghost variables record what correctness is measured against:
- `truth` records the latest value written to each unit by any writer (CPU, draw or fill).
- `sample` records what this step's texture sample read, and is empty after a step that samples nothing.

**Operations.** Every cache function is an operator from a state record to a state record. Nested calls are composition. Loops are `FoldLeft` over the same order the code uses:
- pages in ascending order, then page-table order, deduplicated as the `Picked` flag does;
- segments in address order;
- the validation loop is `RECURSIVE`.

The definitions keep the code's names: `FindMatch`, `FlushRegion`, `InvalidateRegion`, `ValidateSurface`/`ValidateLoop`, `ValidateByReinterpretation`, `CreateSurface`, `RegisterSurface`, `UnregisterSurface`, `UpdatePagesCachedCount`, `RunGarbageCollector` with `RemoveFramebuffers`, `UnregisterAll`, `GetSurface`, `GetSurfaceSubRect`, `GetTextureSurface`, `RemoveTextureCubeFace`, `CopySurface`, `UploadSurface`, `DownloadSurface`, `DownloadFillSurface`.

**Actions.** Each action is one entry point, run whole:

| Action | What it does |
|---|---|
| `CpuWrite(r, small)` | memory's invalidate-then-store on a page marked cached. `small` is an access of at most 8 bytes. |
| `CpuRead(r, small)` | memory's flush before reading a marked page. |
| `Draw(r, v, fmt, stride, touched)` | one attachment of `GetFramebufferSurfaces` (`GetSurfaceSubRect(Exact)`, validate the viewport, then `framebuffers.try_emplace`), the draw's writes, and the framebuffer's release (`InvalidateRegion` with the target as owner). |
| `SampleTexture(r, fmt, stride, align)` | `GetTextureSurface` with its three branches (null, 4-aligned retile into a temporary surface, 8-aligned), then reading the returned surface. |
| `AccelerateFill(r)` | inserts, registers and takes ownership with a fill surface. |
| `TextureCopy(src, dst)` | `AccelerateTextureCopy`: `GetTexCopySurface` (a `TexCopy` match, validated over src); with none, the result is `skip_texture_copy`. Otherwise the destination takes the source's format and scale and is looked up with `GetSurfaceSubRect(Upscale, false)`; then the title hack may force a fallback (the counter is read, never decremented); otherwise the GPU copy and `InvalidateRegion(dst, owner = destination)`. |
| `DisplayTransfer(src, dst)` | `AccelerateDisplayTransfer`: src by `GetSurfaceSubRect(Ignore, true)`, dst at the source's scale by `GetSurfaceSubRect(Upscale, false)`; the hack forces a fallback and counts `forceFallBackToSW` down, or sets it when clear; unblittable formats fall back; otherwise the blit and `InvalidateRegion(dst, owner = destination)`. |
| `BindTextureCube` | `RasterizerOpenGL::BindTextureCube` with `GetTextureCube`. A new entry looks up each face in `CubeFaces` with `GetTextureSurface` at the alignment `CubeAlign`, then creates the cube surface (`CreateSurface`, type `Texture`, never registered) at the largest face scale. Every bind then copies each face the entry still lists into its layer (`RefreshCube`), and the cube is sampled. `UnregisterSurface` calls `RemoveTextureCubeFace`, which drops the face and sentences the cube surface with the last face. |
| `TickFrame(nf, ns)` | collects garbage, then unregisters everything on a filter change and again on a scale change. |
| `ClearAll(flush)` | `RasterizerOpenGL::ClearAll`: with `flush`, flushes all of memory; then unmarks every counted page and empties `cached_pages`, `dirty_regions` and `page_table`. Surfaces keep their Registered flag and are not sentenced, as in the code. `ClearAllFlush` is the set of arguments a run allows. |

Both transfer actions end in `Transfer`. A `false` result runs the caller's software transfer: flush src, invalidate dst with no owner, copy guest memory. That caller is outside `src/` (the GPU's register handler), so `SoftwareTransfer` is written from `spec.md`. The ghost `truth` is copied the same way (`CopyTruth`). Requests are same-format and gapless. They start as the model's one-unit ranges `Transfers`. `ProgramHack` stands for `program_id == 0x00040000000A0500`, and `TriggerAddrs` for the four problematic addresses.

**Fairness.** `FairSpec` adds weak fairness of the frame tick. The renderer calls `TickFrame` once per presented frame, whatever the guest does, so a tick cannot be postponed forever. Nothing else is assumed: the guest may stop drawing or touching memory. The fairness is stated on `FrameAdvance`, which only steps `frame_tick`. `TickFrame` is the only action that changes `frame_tick`, and its only guard is the tick bound, so `WF_frame_tick(FrameAdvance)` is weak fairness of `TickFrame`. Stated this way, TLC does not have to evaluate `TickFrame`'s unregistering inside `ENABLED`, which it cannot do in reasonable time.

**Abstractions.**
- Memory is `NumAddr` units in pages of `PageSize` units. A unit stands for the bytes of one pixel row segment.
- Tiling, gaps between rows and mip levels are not modelled; every surface has one level.
- Contents are one value per unit, and every written value is fresh. So "holds the latest data" is equality with `truth`.
- The `SurfaceBase` predicates live in `surface_base.cpp`, which is not under `src/`. They are written from the Matcher section of `spec.md`: `ExactMatch`, `CanSubRect`, `CanCopy`, `CanFill`, `CanReinterpret`, `GetCopyableInterval`. All model formats have the same bits per pixel.
- `CanTexCopy` and `CheckFormatsBlittable` are also not under `src/`. They are written from `spec.md`: a texture-copy source contains the request, and two formats are blittable when they have the same type.
- Transfers have no gaps, no format conversion and no `upscaling_hack`. The size checks at the top of `AccelerateTextureCopy` pass. The `Texture`-type destination check never fires: the only `Texture` surface is the cube's, which is never registered, so no lookup finds it.
- A cube's format, width and levels are fixed, so the model has one cache entry. Face `i`'s layer is kept in the cube surface's data at face `i`'s units; faces are disjoint. The code skips a face whose `modification_tick` it recorded at the last copy. The model copies every face on every bind, which gives the same contents if `SurfaceBase` (not under `src/`) bumps the tick on every change of texels.
- `runtime.Reinterpret` succeeds exactly for the pairs in `Reinterpreters`. The OpenGL runtime has D24S8 → RGBA8.

### `StreamBuffer.tla`: `OGLStreamBuffer`

- **State.** One buffer record:
  - `pos` (`buffer_pos`), `msize` (`mapped_size`), `moff` (`mapped_offset`);
  - `cpu`: what was written through the mapping;
  - `gpu`: what the GPU can see.
  - History fields: `inv` (the last Map wrapped), `live` (units published since the last wrap), `last` (units the last Unmap published).
- **Operators.** Each takes a buffer record, so a client can hold several buffers.
  - `Map(b, size, align)`: align, wrap to 0 and orphan, remap when not persistent. It returns the pointer relative to the mapping, `buffer_pos` and the invalidate flag, as the code does.
  - `Memcpy`: write through the mapping. It is visible at once only if the mapping is coherent.
  - `Unmap(b, size)`: flush `[buffer_pos, +size)` of a non-coherent mapping, then advance.
- **Specification.** A client that, in one step, maps one of `Sizes` with one of `Alignments`, writes `used` units and unmaps `used`. Every user in `gl_rasterizer.cpp` does these three within one call.
- **Constants.**
  - `Persistent` models `GLAD_GL_ARB_buffer_storage`.
  - `Coherent` models `prefer_coherent`; the rasterizer never asks for coherent buffers.

### `DrawUploads.tla`: LUT and uniform uploads of `Draw`

- **Composition.** It instantiates `StreamBuffer` three times with `INSTANCE ... WITH`, once each for `texture_lf_buffer`, `texture_buffer` and `uniform_buffer`, each with its own size.
- **State.**
  - PICA LUT contents (`pica`), the rasterizer's cached copies (`lut_data`), per-LUT dirty flags, and `lighting_lut_dirty_any`.
  - The FS block data (scissor, LUT offsets, `dirty`); the VS block data and its `dirty` flag; `pica.vs_setup`.
  - The three buffers, the uniform bindings, and the fallback textures' texels (`tex2d`).
  - `stale_reads`, a history variable: what the last draw read that was not current.
- **Actions.**
  - `Draw(accelerate)`: the scissor update, `SyncAndUploadLUTs`, `SyncAndUploadLUTsLF` and `UploadUniforms`, in the code's order, as one step. Then it records what the shaders read. Each sync is a chain of stage operators that thread `[st, ptr, offset, inv, used]` (the `Map` result and `bytes_used`) through the code's loops.
  - Guest register writes: `WriteLut`, `SetScissor`, `SetVsUniform`, `SetVsSetup`. The dirty marking is in `RasterizerAccelerated`, outside `src/`, so these are modelled from its interface (`spec_modelled`).
- **Data abstraction.** A LUT's contents are one of `Vals`. A unit of buffer or texture holds `<<lut, contents>>`. Sizes are in 1 KiB units:
  - a lighting LUT (256 `Vec2f`) is 2 units;
  - fog and the proctex noise, colour-map and alpha-map LUTs are 1;
  - the proctex colour and difference LUTs (256 `Vec4f`) are 4;
  - uniform blocks are counted in alignment units.

  Fallback textures are counted in blocks of 128 texels, with the sizes the constructor gives them: `lut_rg` 1024×2, `lut_lf` 128×1, `lut_rgba` 256×1.
- **What a draw reads.**
  - Each uniform block is read at its binding in the uniform buffer as the GPU sees it.
  - Each LUT is read at the offset given by that FS block, in the stream buffer; on the fallback path, in the texture its upload targets.
  - The fallback shader is generated outside `src/`. Reading where the upload wrote is the most favourable reading of it, and it is what the offsets the code stores describe.
- **Initial state.** Every flag is dirty, and the cached copies match no contents (`NoData`), so the first draw uploads everything. The headers that give the real initial values are not in `src/`; see the hazards.

### `MCDrawUploads.tla`: a view for TLC

`MCView` keeps three kinds of value relative to the current source, and drops two things.
- **LUT images.** Each stored image of LUT `l` (in a buffer, a texture or `lut_data`) is kept only as whether it equals `pica[l]`. With two values, states equal under the view have the same futures up to renaming each LUT's values.
- **Uniform blocks.** The uniform values are kept the same way, each relative to its own source.
- **Dead units.** A buffer unit no pointer covers is dropped: a pointer reaches a unit only in the step that writes it. This covers LUT offsets in the FS data or the bound FS block, and uniform bindings.
- **Dropped.** The CPU side of a mapping and the buffer history fields, which `DrawUploads` never reads.

### `UniqueData.tla`: the console unique-data loader

- **State.**
  - `file`: the SecureInfo_A, LocalFriendCodeSeed_B and movable.sed files on disk;
  - `cache`: the statics `secure_info_a`, `local_friend_code_seed_b` and `movable`;
  - `sig_valid`: the `..._signature_valid` flags;
  - `loaded`: `secure_info_a_loaded` and `local_friend_code_seed_b_loaded`;
  - `otp_file`, `otp` and `ct_cert`;
  - `last`, a history variable: the last call and its `SecureDataLoadStatus`.
- **Data abstraction.** A struct is an image of three booleans:
  - `valid`: what `IsValid()` tests (a non-zero serial or seed, or the SEED magic);
  - `signed`: what `VerifySignature()` answers;
  - `intact`: a ghost field, whether the struct holds exactly one file as read.

  `Invalidate` follows the header: zeroing the serial or seed breaks the signature, which covers it. Zeroing movable's magic does not, since the embedded LFCS signature does not cover the magic. An OTP image is a device id and whether its CTCert verifies.
- **Actions.**
  - `LoadSecureInfoA`, `LoadLocalFriendCodeSeedB` and `LoadMovable`. These are three copies of one shape in the code, modelled by one operator, `LoadVerified`: Exists, IsOpen, size, ReadBytes, in that order. A short read invalidates the struct.
  - `LoadSecureInfoAFile` and `LoadLocalFriendCodeSeedBFile` (`LoadFile`).
  - `LoadOTP` and `OpenUniqueCryptoFile`. Both use `LoadOTPResult`, the load, cert build and verification.
  - `InvalidateSecureData`.
  - The user's `ReplaceFile` and `ReplaceOtpFile`.
- **Constants.**
  - `Items`: the structs a run follows. They share nothing but `InvalidateSecureData`, so a run may follow a subset.
  - `FileLoaders`: whether the unverified loaders are called.
  - `IOFaults`: whether opens can fail and reads come up short.
- **Left out.** The `Get*` accessors only call a loader, and the path helpers only build strings. The crypto key is abstracted to the cert and OTP it comes from.

### `GuestMemory.tla`: what the cache promises

This is the abstract specification of the surface cache as the rest of the emulator sees it: one memory. `data` maps each unit to the value it holds. `last` is the last fresh value. `read` is what this step read, empty for a step that reads nothing. There are three actions:
- `Write` gives some units (possibly none) the next fresh value;
- `Copy` copies a range of units to another (a texture copy or display transfer);
- `Read` returns what some units hold. A step that reads nothing and changes nothing is a `Read` of no units.

`RasterizerCache` instantiates it as `GuestMem` with this mapping:
- `data` is `CoherentView`;
- `last` is `next_val`;
- `read` is `sample`.

`ImplementsGuestMemory == GuestMem!Spec` is the property a run checks.

### `MCRasterizerCache.tla`: model values for TLC

- It gives three units:
  - page 0 holds units 1–2 and page 1 holds unit 3;
  - surfaces can fill a page, straddle both pages, or start inside a page.
- There are two surface slots.
- Ranges are given as `MCRegions`; fills as `MCUnitFills` or `MCWideFills`; transfers as `MCTransfers` (unit 3 to unit 2 and back: page 1 to the unit inside page 0's surfaces) or `MCNoTransfers`.
- It defines two `VIEW`s:
  - `MCView` keeps, per unit, only whether each copy equals `truth`, and keeps sentence ages relative to `frame_tick`. This is sound because no guard reads a pixel value, values only move between copies of the same unit, and every written value is fresh.
  - `MCShapeView` drops values entirely, for the bookkeeping run.
  - `MCView` leaves out `fbs`, which no guard reads; `MCShapeView` keeps it.
- `MCView` also keeps `SampleView`, which says unit by unit whether the step's sample read what `CoherentView` holds. A sample step changes only `sample`. Without this component the step would be a stutter of the view, and TLC would not check `ImplementsGuestMemory` on it. Because every step that samples nothing empties `sample`, a wrong sample always changes the view.
- The texture cube has no faces (`MCNoFaces`) or one face at unit 3 (`MCOneFace`).
- `MaxVal` and `MaxTick` are set far above what the state graph's depth can use, so they cut nothing.

## 3. Runs

| Run | Config | Expect | Properties | What it shows |
|---|---|---|---|---|
| coherence | `MCRasterizerCache_coherence.cfg` | pass | `NoLostWrite`, `ValidIsLatest`, `ReadSeesLatest`, `ImplementsGuestMemory` | See below. |
| structure | `MCRasterizerCache_structure.cfg` | pass | `TypeOK`, `DirtyOwnerValid`, `CacheBookkeeping`, `SlotLifecycle`, `CubeFacesLive`, `FramebuffersLive`, `SurfacesReclaimed` | See below. |
| reinterpret | `MCRasterizerCache_reinterpret.cfg` | violation | `ValidIsLatest` | A partial reinterpretation marks the whole run valid (finding 1). |
| fillflush | `MCRasterizerCache_fillflush.cfg` | violation | `NoLostWrite` | A fill flushed from inside itself leaves memory stale (finding 2). |
| streambuffer | `StreamBuffer.cfg` | pass | `TypeOK`, `NoOverwrite` | See below. |
| uploads | `MCDrawUploads.cfg` | pass | `TypeOK`, `DrawReadsLatest`, `CachedLutOnGpu` | See below. |
| fallback_alias | `MCDrawUploads_alias.cfg` | violation | `DrawReadsLatest` | Two fallback LUTs share texels (finding 3). |
| fallback_rows | `MCDrawUploads_rows.cfg` | violation | `DrawReadsLatest` | Fallback LUTs placed on rows that do not exist (finding 4). |
| unique_verified | `UniqueData_verified.cfg` | pass | `VerifiedStatus`, `CertOfOtp` | See below. |
| unique_files | `UniqueData_files.cfg` | pass | `LoadedNeverTorn` | See below. |
| unique_flag | `UniqueData_flag.cfg` | violation | `VerifiedStatus` | The unverified loader leaves the signature flag stale (finding 5). |
| unique_fileloaded | `UniqueData_fileloaded.cfg` | violation | `FileStatusIsRead` | The loaded flag outlives `InvalidateSecureData` (finding 6). |

**coherence.** Configuration:
- RGBA8 and D24S8 formats, with no reinterpreter between them, so a color surface over a depth owner goes through flush-and-upload;
- one stride;
- single-unit fills;
- one filter (a filter change is one more `UnregisterAll`, which the structure run exercises);
- scale 1;
- `ClearAll(true)`;
- texture copies and display transfers both ways between units 2 and 3, with `skip_texture_copy` off, so that a texture copy with no source runs in software;
- the title hack on, with unit 2 a trigger address and `FallbackCalls` = 1, so forced fallbacks run the software transfer after the lookups have created surfaces;
- no texture cube (`MCNoFaces`): with one, `ImplementsGuestMemory` fails on the stale face copy described in §4;
- the ranges `MCStraddleRegions`: 1–3 (both pages), 2 (inside page 0) and 3 (page 1). The page-0 range 1–2 of the other runs is left out; with it and the transfers, the run no longer fits the time limit.

Result: memory, valid surface regions, CPU reads and texture samples always see the latest write.
- `NoLostWrite`: unowned units of memory are current, and owned units are current in their owner.
- `ValidIsLatest`: every valid unit of a surface listed in the page table is current. Surfaces that `ClearAll` leaves flagged Registered but unlisted are unreachable, and are not checked.
- `ReadSeesLatest`: a CPU read of any unit returns the latest value. This needs the page marks to be right.
- `ImplementsGuestMemory` (refinement): the cache implements `GuestMemory`. The mapping reads each unit from its dirty owner, or from memory where it has none (`CoherentView`). Under that mapping, every step does one of three things: it writes a fresh value to some units, it returns in a texture sample exactly what the view holds, or it leaves the view unchanged. So flushes, uploads, copies, retiling, accelerated and software transfers (both are `Copy` steps), collection and `ClearAll(true)` never change what a unit holds. This replaces an earlier action property that compared samples with the ghost `truth`. The refinement mentions no ghost variable.

**structure.** Configuration:
- two formats with the D24S8 → RGBA8 reinterpreter;
- two strides, so the stride shortcut fires;
- wide fills;
- `skip_cpu_write` on;
- scales 1 and 2, so `GetSurfaceSubRect` supersedes lower-scale surfaces;
- both filters;
- transfers with `skip_texture_copy` on and the title hack on: unit 2 is a trigger address, and `FallbackCalls` = 1;
- a texture cube with one 8-aligned face at unit 3, whose face surface and cube surface take both slots.

Result: the cache's bookkeeping survives every path, including the hacks.
- `DirtyOwnerValid`: every dirty owner is live, registered and valid where it owns data. This is what FlushRegion asserts, and what keeps the collector from erasing an owner.
- `CacheBookkeeping`: the page table lists each registered surface once per page, the counts match, and exactly the counted pages are marked.
- `SlotLifecycle`: every live surface is exactly one of registered, held as the cube entry's surface, or sentenced once, and whatever is sentenced or held is live.
- `CubeFacesLive`: every face the cube entry lists names a live, non-fill surface that covers the face. A face surface that a CPU write or a flush unregisters must leave `face_ids` before it is sentenced and recycled.
- `FramebuffersLive`: every framebuffer the cache keeps names a live color or depth surface. Slot ids are reused after an erase, so a stale entry would hand a new surface an old framebuffer. The collector drops framebuffers before it erases, and the only other erase, of fill surfaces in `UnregisterSurface`, never meets a render target.
- `SurfacesReclaimed` (liveness, under `FairSpec`): a live surface that the page table no longer lists, other than the cube entry's surface, is eventually erased or listed again. This covers sentenced surfaces and temporary retiled textures. It is the lifecycle Registered → Sentenced → Erased that the spec describes, and it depends on the collector's age test and on `frame_tick` bookkeeping across recycling. In `MCShapeView`, a sentence's age is capped at `RemoveThreshold + 1`. The collector reads an age only by comparing it with `RemoveThreshold`, and ages only grow, so the cap merges only states the code cannot tell apart.

**streambuffer.** Configuration: a persistent, non-coherent 7-unit buffer; requests of 1–3 units with alignment 0, 2 or 4. Padding-caused wraps, exact fits and non-advancing requests (`used = 0`) all occur.
- `TypeOK`: `buffer_pos` and the mapped range stay inside the buffer; the wrap-before-align mutant pushes `buffer_pos` past the end.
- `NoOverwrite` (action property): unless its Map wrapped, an Unmap publishes only units that no Unmap published since the last wrap. A draw still in flight may be reading those.

**uploads.** Configuration: the texture-buffer path without `ARB_buffer_storage`, as on the Raspberry Pi's GLES driver.
- Lighting LUT 0 and fog go in a 6-unit LF buffer (`max_size` 3), the noise LUT in a 3-unit buffer, and three one-unit uniform blocks in a 5-unit buffer.
- In every buffer, a full upload leaves room for one partial upload, and the next upload wraps. The real 64 KiB LF buffer with a 49 KiB `max_size` behaves the same way.
- Draws with and without acceleration are both taken.

Properties:
- `DrawReadsLatest`: at every draw, each LUT read through the bound FS block holds the PICA contents. The VS block, the FS block's scissor and, on accelerated draws, the VSPica block are current.
- `CachedLutOnGpu`: for every LUT, `lut_data` (the copy the skip test compares with) is what the GPU holds at the LUT's offset. This is why skipping an unchanged LUT is safe.

TLC checks 105,301 distinct states in about 95 s with coverage on.

**unique_verified.** Configuration: SecureInfo_A and movable.sed, whose `Invalidate` differ; only the verified loaders; I/O faults; otp.bin images of two consoles.
- `VerifiedStatus`: a verified loader answers `Loaded` or `InvalidSignature` only for a struct read whole from a file, and answers `Loaded` exactly when that struct's signature verifies. This holds across any sequence of reads, failed reads, invalidations and file changes.
- `CertOfOtp`: a valid OTP always comes with a valid CTCert built from that same OTP.

**unique_files.** Configuration: SecureInfo_A and LocalFriendCodeSeed_B with both loaders and I/O faults, and otp.bin images that all fail to load. This run fires the unverified loaders.
- `LoadedNeverTorn`: a set `secure_info_a_loaded` or `local_friend_code_seed_b_loaded` never sits over a torn struct that passes `IsValid()`. `LoadSecureInfoAFile` leaves a short read's bytes in place; after `InvalidateSecureData` zeroes a loaded struct, only the `Invalidate()` that the verified loader makes after its own short read (`unique_data.cpp:60`) keeps the next torn prefix from looking valid under the flag. This is the torn-struct hazard checked with the file loaders on.

The two properties that fail (`ValidIsLatest` under reinterpretation, `NoLostWrite` under wide fills) are kept out of the passing runs' configurations on purpose: their violations are the two findings. The coherence run keeps single-unit fills, where a flush always starts at the fill's first unit. It has no reinterpreter, so the faulty reinterpretation path cannot succeed.

Every property of a passing run is also checked against a mutant of the code (PROJECT.json, "mutants"), and TLC finds each one violated:

| Mutant | Property it breaks |
|---|---|
| CPU invalidation keeps the old owners | `NoLostWrite` |
| upload without flushing first | `ValidIsLatest` |
| page count over the first page only | `ReadSeesLatest` |
| aligned texture not loaded | `ImplementsGuestMemory` |
| registration counts one page | `TypeOK` (negative count) |
| `UnregisterAll` without `FlushAll` | `DirtyOwnerValid` |
| unregister from one page only | `CacheBookkeeping` |
| recycled surface left in `sentenced` | `SlotLifecycle` |
| collector takes a sentence's age the wrong way round | `SurfacesReclaimed` |
| unregistered surface sentenced without `RemoveTextureCubeFace` | `CubeFacesLive` |
| collector erases surfaces without `RemoveFramebuffers` | `FramebuffersLive` |
| wrap test made before the alignment | `TypeOK` (streambuffer) |
| `Unmap` does not advance `buffer_pos` | `NoOverwrite` |
| `uniform_size` leaves out the VSPica block | `TypeOK` (uploads) |
| FS block not rewritten after a uniform-buffer wrap | `DrawReadsLatest` |
| unchanged LUT not rewritten after a LUT-buffer wrap | `CachedLutOnGpu` |
| short read in a verified loader does not invalidate the struct | `VerifiedStatus` |
| CTCert verification failure invalidates only the cert | `CertOfOtp` |
| short read in a verified loader does not invalidate the struct | `LoadedNeverTorn` (unique_files) |

## 4. Findings

1. **Partial reinterpretation is marked fully valid.** `rasterizer_cache.h:1025`.
   - `ValidateByReinterpretation` copies `copy_interval`, the source's longest valid run. `ValidateSurface` then calls `notify_validated(interval)` on the whole run.
   - TLC trace:
     1. A depth target over units 1–3 is drawn with a viewport of units 1–2, so it is validated and owned only there.
     2. A color target at the same address is then validated.
     3. Units 1–2 come from the depth surface by reinterpretation, and unit 3 is marked valid while still holding the texture's uninitialized contents.
   - The Copy path, three lines above, correctly uses `copy_interval`.
2. **Fill download starting inside the fill.** `rasterizer_cache.h:1193`.
   - `DownloadFillSurface` points `dest_ptr` at the flush start but starts the loop at `start_offset`, the distance from the surface start, and ends it at the flushed length.
   - A flush that starts past the surface start writes nothing to its first `start_offset` bytes. `FlushRegion` still drops them from `dirty_regions`.
   - TLC trace: a fill over units 1–2, then a CPU read of more than 8 bytes at unit 2. Memory keeps its old value and nothing owns the unit.

3. **Fallback LUTs overwrite each other.** `gl_rasterizer.cpp:1351` and `:1231`. This path is GLES without `OES_texture_buffer`.
   - The proctex noise, colour-map and alpha-map LUTs go to texels 0–383 of row 0 of `texture_buffer_lut_rg`.
   - Lighting LUTs 0 and 1 go to texels 0–511 of the same row.
   - The LUT uploaded later overwrites the other. The overwritten one is never uploaded again while its contents equal `lut_data`.
   - TLC trace: the first draw uploads noise, then lighting LUT 0 over it. The noise LUT, read at offset 0, returns lighting data.
4. **Fallback LUTs on rows that do not exist.** `gl_rasterizer.cpp:1232` and `:1428`.
   - `lut_rg` is created 1024×2 (line 227), so only lighting LUTs 0–7 fit, but LUT `index` goes to row `index / 4` for all 24.
   - The difference LUT goes to row 1 of the 256×1 `lut_rgba`.
   - These `glTexSubImage2D` calls fail with `GL_INVALID_VALUE`, yet `lut_data` is updated, so the upload is never retried.
   - TLC trace: the first draw reads undefined texels for lighting LUT 8 and the difference LUT.

5. **Stale signature flag after the unverified loader.** `unique_data.cpp:199`.
   - `LoadSecureInfoAFile` fills `secure_info_a`, the struct `LoadSecureInfoA` answers for. It neither verifies the struct nor sets `secure_info_a_signature_valid`.
   - `LoadSecureInfoA` then finds `IsValid()` true and answers from the flag.
   - TLC trace: a correctly signed SecureInfo_A is loaded by `LoadSecureInfoAFile`. `LoadSecureInfoA` then reports `InvalidSignature`.
   - With an earlier verified load, `InvalidateSecureData` and a new unsigned file, the same sequence reports `Loaded` for the unsigned file.
   - `LoadLocalFriendCodeSeedBFile` has the same shape.
6. **Loaded flag outlives `InvalidateSecureData`.** `unique_data.cpp:182` and `:270`.
   - `InvalidateSecureData` zeroes the serial but leaves `secure_info_a_loaded` set.
   - `LoadSecureInfoAFile` then answers `Loaded` for the zeroed struct without rereading the file.

**Found by TLC, with no run kept.** There are two defects in `GetTextureCube`. Each is reproduced by changing the constants of a kept run, as PROJECT.json's hazards record. Neither has a run of its own: every run slot already holds one of the checks above.
- *The cube copies a stale face* (`rasterizer_cache.h:693`). Faces are copied as they are, without `ValidateSurface`. With the coherence constants and one face over units 1–3, `ImplementsGuestMemory` fails in three steps: bind the cube, a CPU write of unit 2 (the face surface stays registered and becomes invalid there), bind again. The second bind samples the old value.
- *A 4-aligned face dangles* (`rasterizer_cache.h:660`). Such a face is `GetTextureSurface`'s temporary surface, sentenced at creation (line 611). The collector erases it without `RemoveTextureCubeFace`, and `face_ids` keeps the erased slot. With the structure constants, `MaxSurfaces` = 3 and `CubeAlign` = "4", `CubeFacesLive` fails in two steps: bind, then `TickFrame`.

**Observed, not a finding.** The title hack reads `forceFallBackToSW` in both transfers, but only `AccelerateDisplayTransfer` counts it down (`rasterizer_cache.h:252-260` against `:338-343`). After a trigger, a guest that issues only texture copies keeps falling back to software. `spec.md` says the fallback sticks for a bounded number of calls. The model keeps the code's behaviour, and the structure run checks that the forced fallbacks keep the bookkeeping intact. Nothing in the code makes display transfers happen, so a liveness property about the counter would fail for that reason alone. The issue is listed as a hazard.

## 5. Bounds, fairness, deadlock

- **Transfer bounds.** One-unit transfers between page 1 and page 0 reach every outcome: a texture copy with and without a source, a display transfer that creates both surfaces, a destination inside an existing surface, and the forced fallback through a trigger address and through the counter. `FallbackCalls` = 1 lets the counter be set by one forced fallback and cleared by the next; a larger value only adds steps of the same countdown.
- **Bounds.** Three units on two pages and two slots are the smallest configuration where all of the following happen:
  - surfaces share a page, straddle a page boundary and start mid-page;
  - a surface supersedes another;
  - a sentenced surface is recycled.
- **Action restrictions.**
  - A request that can create a surface is taken only while a slot is free (`HasRoom`), and a 4-aligned texture only while two are free. A display transfer takes each of its two lookups only while a slot is free in the state it starts from.
  - A draw writes all or none of its viewport (`DrawnUnits`). A partial draw is a draw with a smaller viewport.
- **DrawUploads bounds.** One lighting LUT and fog share the LF buffer, so both LF loops and their order are exercised. Sizes 1 and 2 make offsets differ from LUT indices. A second lighting LUT or proctex LUT multiplies the reachable offsets past what TLC finishes in five minutes. Every LUT goes through the same code path.
- **UniqueData bounds.** Every file state the code tells apart occurs: absent, wrong size, and each combination of IsValid and signature. Short reads leave torn structs that pass or fail `IsValid()`. Two OTP ids make a cert of the wrong console possible. Each run follows two structs, since the structs are independent apart from `InvalidateSecureData`.
- **Cube bounds.** One face at unit 3 gives a face surface that a CPU write, a flush or `UnregisterAll` can unregister, so the cube loses its face and its surface is sentenced and collected. A second face needs a third slot, which the run's time limit does not allow. Faces are looked up only for a new entry, so a second face adds no new path. `CubeAlign` is "8" in the kept run: 4-aligned faces fail `CubeFacesLive` (above), and 1-aligned ones give the null surface, which the model has no slot for.
- **Deadlock.** Deadlock is checked. Sampling an unaligned texture (the null surface) is always possible, as it is in the emulator.
- **Fairness.** There is one liveness property, `SurfacesReclaimed`, checked in the structure run under weak fairness of the frame tick only (see §2). No fairness is assumed for the guest's actions. `UniqueData`, `StreamBuffer` and `DrawUploads` have safety properties only. Their operations are calls made on demand, and no call promises that another will follow.
- **ClearAll and liveness.** When `ClearAll` is added to the structure configuration, TLC finds `SurfacesReclaimed` violated, and `CacheBookkeeping` too. A surface registered before the clear stays live, leaves the page table and is never sentenced, so the collector never erases it. In `src/`, `ClearAll` is called only by the cache's destructor and by `RasterizerOpenGL::ClearAll`, whose callers are outside `src/`. So the structure run leaves `ClearAll` out, and the leak is listed as a hazard rather than a finding.

## 6. Not modelled, and why

- **Parts of the surface cache not modelled yet** (planned, §7):
  - in transfers: format conversion, gaps, `upscaling_hack`, and the flip and crop rectangle swaps, which change no unit the model tells apart;
  - the framebuffer's color/depth pairing: a draw binds one attachment, so a framebuffer has one surface;
  - custom textures (`UploadCustomSurface` and its callback at line 1121), which depend on `CustomTexManager`'s decoding and asynchronous loading, and samplers, which are a cache of GL objects keyed by register values;
  - the cube's mip levels and `modification_tick`, which live in `SurfaceBase` (not under `src/`);
  - color/depth rectangle reconciliation.
- **Rest of `Draw`:** vertex uploads through `vertex_buffer` and `index_buffer`, `SetupVertexArray`, and shader and pipeline state sync. These are register translation and one Map/Unmap each. `StreamBuffer`'s client models the vertex-buffer use.
- **GPU asynchrony:** draws read their inputs at the step that uploads them, so the model has no queue of pending draws. Orphaning semantics for draws in flight are the driver's concern; `NoOverwrite` states the part the code controls.
- **GL format rules:** `lut_rgba` is `GL_RGBA8` but receives `GL_FLOAT` data on the fallback path, which GLES 3 rejects. Texel writes in the model ignore formats; this is listed as a hazard.
- **Left out for good:**
  - `configure_dialog.cpp` (Qt layout);
  - `emu_window_sdl2_gl.h`, `vk_shader_util.h`, `ir_u.h`, `apt_s.h`, `system_titles.h`, `signature.h` (declarations);
  - `nim.cpp` (service registration);
  - `erreula.cpp`: one request/start/finalize exchange, with no concurrency and no retained state.

## 7. Plan

1. **Done:** `RasterizerCache` core with coherence and bookkeeping runs.
2. **Done:** `ClearAll` (coherence run) and the liveness property `SurfacesReclaimed` under a fair frame tick. Still to do: an action for `FlushAndInvalidateRegion`.
3. **Done:** accelerated transfers (`GetTexCopySurface`, `AccelerateTextureCopy`, `AccelerateDisplayTransfer` with `forceFallBackToSW`).
4. **Done:** texture cubes (`GetTextureCube`, `RemoveTextureCubeFace`). **Done:** the framebuffers map and `RemoveFramebuffers` on collection, for one attachment per draw.
5. **Done:** the abstract memory `GuestMemory`, refined by `RasterizerCache` in the coherence run. Still to do: a CPU-read variable in the mapping, so that `ReadSeesLatest` becomes part of the refinement as well.
6. **Done:** `StreamBuffer` composed into `DrawUploads`. Still to do: a run of the persistent path of `DrawUploads`, and a refinement of `StreamBuffer` to an abstract append-only log between wraps.
7. **Done:** `UniqueData`.
