---------------------------- MODULE RpcPackages ----------------------------
(***************************************************************************)
(* Requests between processes (Rpc) together with what they carry and with *)
(* the configuration the processes read before they serve any (Packages).  *)
(***************************************************************************)
EXTENDS MCRpc, Packages

LOCAL INSTANCE Functions

\* The structures the stubs and the handlers of a key convert.
Bodies == [BSP_DUMMY |-> [cap |-> DummyCap, cfg |-> DummyCfg],
           VSF_FRAME |-> [cap |-> FrameCap, cfg |-> FrameCfg],
           VSF_STREAM |-> [cap |-> StreamCap, cfg |-> StreamCfg],
           VSF_OSD |-> [cap |-> OsdCap, cfg |-> OsdCfg],
           RTSP_SVR |-> [cap |-> RtspSvrCap, cfg |-> RtspSvrCfg],
           WEB_SVR |-> [cap |-> WebSvrCap, cfg |-> WebSvrCfg],
           APP_ALG |-> [cap |-> AlgCap, cfg |-> AlgCfg]]
Body(key, act) ==
    CASE act = "NUM" -> Num
      [] act = "CAP" -> Bodies[key].cap
      [] OTHER -> Bodies[key].cfg

\* The file each process reads when it starts.
CfgFiles == [bsp |-> {BspCfg}, vsf |-> {VsfCfg, SdkCfg}, rtsp |-> {RtspCfg}, web |-> {WebCfg},
             app |-> {AppCfg}]

\* With a structure's text in it, in the longest form, with every character of
\* its texts escaped alike.
Fits(key, act, c, e) ==
    /\ PackageSize(Body(key, act), c, e) <= PROTO_PACKAGE_MAXSIZE
    /\ AnswerSize(Body(key, act), c, e) <= PROTO_PACKAGE_MAXSIZE

\* The one structure whose text may be longer than a package: the texts of an
\* OSD, made of control characters.
Overlong(key, act, c, e) ==
    key = "VSF_OSD" /\ act \notin {"NUM", "CAP"} /\ c = "texts" /\ e = 6

\* Whatever the memory a text is read into held before, it holds what was
\* written: the handlers read into a structure that is not initialised.
ReadsBack(type) ==
    \A c, d \in Conditions :
        LET written == Write(type, Filled(type, "new", c))
        IN Write(type, Read(type, written, Filled(type, "old", d))) = written

\* A file that was saved gives back what was saved, one with a member less the
\* built-in value of that member, one that does not parse the built-in ones.
Keeps(type) ==
    \A c, d \in Conditions :
        LET builtin == Filled(type, "old", d)
            saved == Save(type, Filled(type, "new", c))
            below(n) == {p \in DOMAIN saved.text : p[1] = n}
            without(n) == [saved EXCEPT !.text = Restrict(saved.text, DOMAIN saved.text \ below(n))]
            kept(n) == Load(type, without(n), builtin)
        IN /\ Write(type, Load(type, saved, builtin)) = saved.text
           /\ Load(type, Unreadable, builtin) = builtin
           /\ \A n \in {p[1] : p \in DOMAIN saved.text} :
                  \A p \in DOMAIN Write(type, kept(n)) :
                      Write(type, kept(n))[p] = IF p[1] = n THEN Write(type, builtin)[p] ELSE saved.text[p]

\* Which requests and answers of the processes of the repository are carried.
Carried ==
    [key \in Keys |-> [act \in Acts |->
        /\ \A c \in Conditions, e \in Escapes : Fits(key, act, c, e) <=> ~Overlong(key, act, c, e)
        /\ ReadsBack(Body(key, act))]]
KeptFiles == {p \in DOMAIN CfgFiles : \A type \in CfgFiles[p] : Keeps(type)}
\* Generated, and converted by no code of the repository.
Unsent == {Size, ChnCfg, Chn, AlgResult}
RestReadBack == \A type \in {Header} \cup Unsent : ReadsBack(type)

\* Every answer under way, and every request but a browser's, fits the 2048
\* bytes both ends keep for a package, which no length is checked against (the
\* print's result is ignored), unless it is that of an OSD with texts full of
\* control characters; and it is read as it was written into memory that holds
\* anything: an OSD's union is read by the condition of the text, not by the
\* one the memory held.  The text of a browser's own request is as long as the
\* browser says, and web copies it: of that nothing is claimed.  A process that
\* has begun to serve has the configuration its file held, with the built-in
\* values where the file has none.
PackagesCarry ==
    /\ \A t \in Threads :
         call[t].st = "replied" \/ (call[t].st = "sent" /\ t # Ws) =>
           RestReadBack /\ Carried[call[t].key][call[t].act]
    /\ (\E p \in Procs : at[p] > 0) => KeptFiles = DOMAIN OwnKeys
=============================================================================
