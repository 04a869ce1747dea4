-------------------------------- MODULE AssetURL -------------------------------
(***************************************************************************)
(* internal/notionasset: what a text that names a file stands for.         *)
(*                                                                         *)
(* A text is the sequence of its layers, each proxy URL around the next    *)
(* layer, and ends in what names the file.  A layer tells                  *)
(*   form    attachment, icon (a path on Notion's own host), builtin (the  *)
(*           same as a URL), legacy (a bucket's URL), file (a URL that     *)
(*           names an attachment), opaque (a Notion URL that names none),  *)
(*           proxy, external                                               *)
(*   of      the file                                                      *)
(*   signed  whether credentials are in its query                          *)
(***************************************************************************)
EXTENDS Integers, Sequences

MaxProxies == 5

None == <<>>

Layer(form, of, signed) == [form |-> form, of |-> of, signed |-> signed]
Plain(form, of) == <<Layer(form, of, FALSE)>>

Layers ==
  [form : {"attachment", "icon", "builtin", "legacy", "file", "opaque", "proxy", "external"},
   of : STRING, signed : BOOLEAN]

\* Only a proxy has a layer within it.
Texts ==
  {t \in Seq(Layers) :
     \A i \in DOMAIN t : i < Len(t) => t[i].form = "proxy"}

IsURL(layer) == layer.form \notin {"attachment", "icon", "external"}

\* Credentials in any of the layers; a text with too many of them counts as signed.
Signed(t) ==
  \E i \in DOMAIN t :
    /\ i <= MaxProxies + 1
    /\ IsURL(t[i])
    /\ t[i].signed \/ (i = MaxProxies + 1 /\ Len(t) > i)

\* The stable identity of the file that the innermost layer names.
Identity(layer) ==
  IF layer.form \in {"attachment", "file"} THEN Plain("attachment", layer.of)
  ELSE IF layer.form = "icon" THEN Plain("builtin", layer.of)
  ELSE IF layer.form = "legacy" THEN Plain("legacy", layer.of)
  ELSE IF layer.form \in {"builtin", "opaque"} /\ ~layer.signed THEN Plain(layer.form, layer.of)
  ELSE None

Source(t) ==
  IF t = None \/ Len(t) > MaxProxies + 1 THEN None ELSE Identity(t[Len(t)])

DownloadURL(t) ==
  IF t = None \/ ~IsURL(t[1]) \/ (Len(t) > 1 /\ Source(Tail(t)) = None) THEN None ELSE t

SigningSource(t) ==
  IF Source(t) # None /\ Source(t)[1].form \in {"attachment", "legacy"} THEN Source(t) ELSE None

ForStorage(t) == IF Signed(t) THEN Source(t) ELSE t

\* notionHostedAssetSourceValue
Hosted(t) ==
  IF t # None /\ t[1].form \in {"attachment", "icon"} THEN Source(t) ELSE DownloadURL(t)

IsAttachment(t) == t # None /\ t[1].form = "attachment"
================================================================================
