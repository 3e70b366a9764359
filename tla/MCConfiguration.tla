-------------------------- MODULE MCConfiguration ---------------------------
(***************************************************************************)
(* Small instance of Configuration: files that are complete, lack an       *)
(* option or a section, or have one twice, in two directories; ports at    *)
(* the limits of 16 bits; one, two or three -c.                            *)
(***************************************************************************)
EXTENDS Configuration, TLC

MCAtoi == "9000" :> 9000 @@ "http" :> 0 @@ "-1" :> -1 @@ "65535" :> 65535 @@ "65536" :> 65536

Section(type, options) == [type |-> type, options |-> options]

Scgi(port) == Section("scgi", "address" :> "127.0.0.1" @@ "port" :> port)

Amqp(host, port) ==
  Section("amqp", "host" :> host @@ "port" :> port @@ "username" :> "guest"
                  @@ "password" :> "guest" @@ "virtual_host" :> "/")

Exchange == Section("amqp_exchange", "broadcast" :> "fanout" @@ "provisioning" :> "topic")
Queue(name) == Section("amqp_queue", "provisioning" :> name)
Authorization(list) == Section("authorization", list)

Whole(port, host, queue, list) ==
  <<Scgi(port), Amqp(host, "9000"), Exchange, Queue(queue), Authorization(list)>>

At(dir, name) == [dir |-> dir, name |-> name]

MCFile ==
  At("/a", "main")  :> Whole("9000", "here", "@remote_addr", <<"factory", "spare">>) @@
  At("/b", "main")  :> Whole("65535", "there", "operations", <<"own">>) @@
  At("/a", "wide")  :> Whole("65536", "here", "operations", <<>>) @@
  At("/b", "wide")  :> Whole("-1", "there", "operations", <<"factory">>) @@
  At("/a", "word")  :> Whole("http", "here", "operations", <<"factory">>) @@
  At("/a", "twice") :> <<Queue("first")>> \o Whole("9000", "here", "second", <<"own">>)
                         \o <<Scgi("65535"), Amqp("there", "9000")>> @@
  At("/a", "bare")  :> <<Scgi("9000"), Section("amqp", "host" :> "here"), Exchange,
                         Queue("operations"), Authorization(<<>>)>> @@
  At("/b", "open")  :> SubSeq(Whole("9000", "there", "operations", <<>>), 1, 4)

MCPath == DOMAIN MCFile \cup {At("/b", "twice")}

MCCommandLine == UNION {[1..n -> MCPath] : n \in 1..3}
=============================================================================
