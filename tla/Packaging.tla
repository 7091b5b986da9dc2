------------------------------ MODULE Packaging ------------------------------
(***************************************************************************)
(* oci/skills and oci/plugins packagers with oci/artifact: from a          *)
(* directory, as filepath.WalkDir yields its entries, to the manifests of  *)
(* an OCI artifact, and back.  A path is a sequence of names; a digest is  *)
(* the content it is of.  The iteration order of a Go map is an argument   *)
(* (order), for it is the runtime's choice.                                *)
(***************************************************************************)
EXTENDS Naturals, Integers, Sequences, FiniteSets, SequencesExt, TLC, Checks

CONSTANTS MaxFiles,      \* maxSkillFiles, maxPluginFiles
          MaxTotalSize,  \* maxSkillTotalSize, maxPluginTotalSize
          MaxManifestSize,      \* maxManifestSize, of a plugin.json
          MaxDecompressedSize,  \* of artifact, and MaxTarFileSize
          TarHeader,     \* what an entry of a tar takes beside its content
          PathOrder,     \* every path, in the order of its string
          HiddenName,    \* the names that begin with a dot
          DoubledName    \* the names that hold two backslashes in a row

LOCAL Bad(why) == [is |-> "error", why |-> why]

SkillFileName == <<"SKILL.md">>
ManifestFileName == <<".claude-plugin", "plugin.json">>
Sort(names) == SelectSeq(PathOrder, LAMBDA p : Contains(names, p))

(***************************************************************************)
(* Walking a directory.                                                    *)
(***************************************************************************)

\* found: the files so far; skip: the directories that SkipDir left out.
Walked == [files |-> <<>>, total |-> 0, skip |-> {}, why |-> ""]
Stop(w, why) == [w EXCEPT !.why = why]
Collect(w, e) == [w EXCEPT !.files = Append(@, e), !.total = @ + e.size]

Limits(w, e) ==
  FirstOf(<< <<Len(w.files) >= MaxFiles, Stop(w, "too many files")>>,
             <<w.total + e.size > MaxTotalSize, Stop(w, "too large")>> >>, Collect(w, e))

collectSkillFile(w, e) ==
  FirstOf(<< <<Last(e.path) \in HiddenName,
               IF e.kind = "dir" THEN [w EXCEPT !.skip = @ \cup {e.path}] ELSE w>>,
             <<e.kind = "symlink", Stop(w, "symlink")>>,
             <<e.kind = "dir", w>>,
             <<e.kind # "file", Stop(w, "not a regular file")>>,
             <<e.path = SkillFileName, w>> >>, Limits(w, e))

isHiddenPath(path) == \E i \in DOMAIN path : path[i] \in HiddenName

isAllowedHiddenPluginFile(path) == path \in {<<".mcp.json">>, ManifestFileName}

collectPluginFile(w, e) ==
  FirstOf(<< <<e.kind = "symlink", Stop(w, "symlink")>>,
             <<e.kind = "dir", IF Last(e.path) \in HiddenName /\ e.path # <<".claude-plugin">>
                               THEN [w EXCEPT !.skip = @ \cup {e.path}] ELSE w>>,
             <<e.kind # "file", Stop(w, "not a regular file")>>,
             <<isHiddenPath(e.path) /\ ~isAllowedHiddenPluginFile(e.path), w>>,
             <<e.path = ManifestFileName, w>> >>, Limits(w, e))

\* WalkDir stops at the first error and does not enter a directory that was skipped.
WalkDir(entries, kind) ==
  FoldLeft(LAMBDA w, e : IF w.why # "" \/ (\E p \in w.skip : IsPrefix(p, e.path)) THEN w
                         ELSE IF kind = "skill" THEN collectSkillFile(w, e)
                         ELSE collectPluginFile(w, e), Walked, entries)

EntryAt(entries, path) == SelectSeq(entries, LAMBDA e : e.path = path)

\* The front matter of SKILL.md as it is: delimited, small enough, YAML, named.
parseFrontmatter(doc) ==
  FirstOf(<< <<~doc.opens, Bad("front matter")>>, <<~doc.closes, Bad("front matter")>>,
             <<doc.big, Bad("front matter")>>, <<~doc.parses, Bad("front matter")>> >>,
          [is |-> "metadata", of |-> doc.metadata])

\* SKILL.md is read first, whatever its size, and through a symlink if it is one; the walk then
\* finds the symlink.  Its size is not part of the total.  dots: the cleaned path holds "..".
readSkillDirectory(dir) ==
  LET own == EntryAt(dir.entries, SkillFileName)
      walked == WalkDir(dir.entries, "skill")
  IN FirstOf(<< <<~dir.exists \/ dir.dots, Bad("directory")>>,
                <<own = <<>>, Bad("SKILL.md missing")>>,
                <<parseFrontmatter(dir.doc).is = "error", Bad("front matter")>>,
                <<dir.doc.metadata.name = "", Bad("front matter")>>,
                <<walked.why # "", Bad(walked.why)>> >>,
             [is |-> "content", main |-> own, files |-> walked.files, metadata |-> dir.doc.metadata])

readPluginDirectory(dir) ==
  LET own == EntryAt(dir.entries, ManifestFileName)
      walked == WalkDir(dir.entries, "plugin")
  IN FirstOf(<< <<~dir.exists \/ ~dir.absolute, Bad("directory")>>,
                <<own = <<>>, Bad("manifest missing")>>,
                <<own # <<>> /\ own[1].kind # "file", Bad("not a regular file")>>,
                <<own # <<>> /\ own[1].size > MaxManifestSize, Bad("manifest")>>,
                <<~dir.doc.parses, Bad("manifest")>>,
                <<dir.doc.metadata.name = "", Bad("manifest")>>,
                <<walked.why # "", Bad(walked.why)>> >>,
             [is |-> "content", main |-> own, files |-> walked.files, metadata |-> dir.doc.metadata])

(***************************************************************************)
(* The content layer, the config and the manifests.                        *)
(***************************************************************************)

ZeroTime == -1
OrUnixEpoch(epoch) == IF epoch = ZeroTime THEN 0 ELSE epoch

DefaultMode == 420  \* 0644

\* Sorted by path; a mode of 0 is the default.
CreateTar(files, epoch) ==
  LET named(p) == SelectSeq(files, LAMBDA f : f.path = p)[1]
  IN [i \in 1..Len(files) |->
       LET f == named(Sort([j \in DOMAIN files |-> files[j].path])[i])
       IN [path |-> f.path, body |-> f.body, time |-> OrUnixEpoch(epoch),
           mode |-> IF f.mode = 0 THEN DefaultMode ELSE f.mode, type |-> "file", size |-> f.size]]

\* A skill's files keep no mode of their own; a plugin's do, but for its manifest.
createContentLayer(what, content, order, epoch) ==
  LET entry(e, mode) == [path |-> e.path, body |-> e.body, mode |-> mode, size |-> e.size]
      others == [i \in DOMAIN order |-> entry(content.files[order[i]],
                   IF what = "skill" THEN 0 ELSE content.files[order[i]].mode)]
  IN [tar |-> CreateTar(<<entry(content.main[1], 0)>> \o others, epoch), gzip |-> OrUnixEpoch(epoch)]

FilesAsFound(main, content, order) ==
  <<main>> \o [i \in DOMAIN order |-> content.files[order[i]].path]

FilesOf(main, content, order) ==
  Sort(<<main>> \o [i \in DOMAIN order |-> content.files[order[i]].path])

\* The labels of the image config that are read back: the name, and the sorted list of files.
skillLabels(content, order) ==
  [name |-> content.metadata.name, files |-> FilesOf(SkillFileName, content, order)]

pluginConfig(content, order) ==
  [name |-> content.metadata.name, files |-> FilesOf(ManifestFileName, content, order)]

createOCIConfig(labels, layer, platform, epoch) ==
  [created |-> epoch, platform |-> platform, labels |-> labels, diff |-> layer.tar]

createManifest(what, config, layer, epoch) ==
  [artifact |-> what, config |-> config, layer |-> layer, created |-> epoch]

\* One manifest per platform.
createIndex(what, manifests) == [artifact |-> what, manifests |-> manifests]

DefaultPlatforms == <<"linux/amd64", "linux/arm64">>

Build(what, content, order, platforms, epoch, labels) ==
  LET layer == createContentLayer(what, content, order, epoch)
      over == IF platforms = <<>> THEN DefaultPlatforms ELSE platforms
      manifest(p) == createManifest(what, createOCIConfig(labels, layer, p, epoch), layer, epoch)
  IN [is |-> "artifact", layer |-> layer,
      index |-> createIndex(what, [i \in DOMAIN over |-> manifest(over[i])])]

PackageSkill(dir, order, opts) ==
  LET content == readSkillDirectory(dir) IN
  IF content.is = "error" THEN content
  ELSE Build("skill", content, order, opts.platforms, opts.epoch, skillLabels(content, order))

\* A plugin's zero epoch is the Unix epoch from the start.
PackagePlugin(dir, order, opts) ==
  LET content == readPluginDirectory(dir) IN
  IF content.is = "error" THEN content
  ELSE Build("plugin", content, order, opts.platforms, OrUnixEpoch(opts.epoch),
             pluginConfig(content, order))

(***************************************************************************)
(* Reading an archive back.                                                *)
(***************************************************************************)

\* path.Clean on a rooted or relative path, segment by segment.
Clean(p) ==
  FoldLeft(LAMBDA done, s :
             CASE s \in {"", "."} -> done
               [] s = ".." /\ done # <<>> /\ Last(done) # ".." -> Front(done)
               [] s = ".." /\ done = <<>> /\ p.rooted -> done
               [] OTHER -> Append(done, s), <<>>, p.segments)

\* Only the slash separates; a single backslash is a character of a name.
validateTarPath(p) ==
  FirstOf(<< <<\E i \in DOMAIN p.segments : p.segments[i] \in DoubledName, Bad("backslash")>>,
             <<Clean(p) # <<>> /\ Clean(p)[1] = "..", Bad("traversal")>>,
             <<p.rooted, Bad("absolute")>> >>, [is |-> "path", segments |-> Clean(p)])

PathOf(entry) == [rooted |-> FALSE, segments |-> entry.path]

\* The first entry that is not acceptable ends the extraction.
ExtractTarWithLimit(tar, limit) ==
  LET refuses(e) == \/ validateTarPath(PathOf(e)).is = "error"
                    \/ e.type # "dir" /\ (e.type # "file" \/ e.size > limit)
      kept == SelectSeq(tar, LAMBDA e : e.type # "dir")
  IN IF \E i \in DOMAIN tar : refuses(tar[i]) THEN Bad("archive")
     ELSE [is |-> "files", of |-> [i \in DOMAIN kept |->
            [path |-> validateTarPath(PathOf(kept[i])).segments, body |-> kept[i].body,
             mode |-> kept[i].mode]]]

TarSize(tar) == FoldLeft(LAMBDA n, e : n + TarHeader + e.size, 0, tar)

\* Decompress, then ExtractTar: a limit on the whole tar, and the same one on each file.
DecompressTar(layer) ==
  IF TarSize(layer.tar) > MaxDecompressedSize THEN Bad("too large")
  ELSE ExtractTarWithLimit(layer.tar, MaxDecompressedSize)

(***************************************************************************)
(* ValidatingTarget.Push: what a registry sends while a pull copies it.    *)
(***************************************************************************)

MaxFor(media) == IF media \in {"manifest", "index", "docker"} THEN 2 ELSE 4
MaxCount(media) == IF media = "index" THEN 1 ELSE 2

validateManifestCounts(media, content) ==
  FirstOf(<< <<media \notin {"manifest", "index"}, "ok">>,
             <<~content.parses, "parsing">>,
             <<content.count > MaxCount(media), "count">> >>, "ok")

TrustsDescriptor(desc, content) ==
  FirstOf(<< <<desc.size < 0, "negative">>,
             <<desc.size > MaxFor(desc.media), "size">>,
             <<content.digest # desc.digest, "digest">> >>,
          validateManifestCounts(desc.media, content))

ValidatedPush(desc, content) ==
  FirstOf(<< <<desc.size < 0, "negative">>,
             <<desc.size > MaxFor(desc.media), "size">>,
             <<content.size > MaxFor(desc.media), "actual size">>,
             <<content.digest # desc.digest, "digest">> >>,
          validateManifestCounts(desc.media, content))

(***************************************************************************)
(* Platforms: "os/arch" or "os/arch/variant", as the parts between slashes.*)
(* A part is its text and whether there is white space around it.          *)
(***************************************************************************)

TrimSpace(part) == part.text
Bare(text) == [text |-> text, spaces |-> FALSE]

PlatformString(p) ==
  <<Bare(p.os), Bare(p.arch)>> \o IF p.variant = "" THEN <<>> ELSE <<Bare(p.variant)>>

ParsePlatform(parts) ==
  IF Len(parts) \notin 2..3 \/ \E i \in DOMAIN parts : TrimSpace(parts[i]) = "" THEN Bad("format")
  ELSE [is |-> "platform", os |-> TrimSpace(parts[1]), arch |-> TrimSpace(parts[2]),
        variant |-> IF Len(parts) = 3 THEN TrimSpace(parts[3]) ELSE ""]

=============================================================================
