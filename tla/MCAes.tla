------------------------------- MODULE MCAes -------------------------------
(* Aes for TLC: the key of calc_sig, which is that of the examples of NIST *)
(* SP 800-38A, with the four blocks of its example F.2.1, and three more   *)
(* keys and messages so that the entries of the tables are used; and the   *)
(* payloads of app/test.c under that key.                                  *)
EXTENDS Aes

AsBlock(bytes) == [j \in 0 .. 15 |-> bytes[j + 1]]
Key(bytes) == [n \in 1 .. 4 |-> [k \in 0 .. 3 |-> bytes[4 * n + k - 3]]]

ExampleKey == Key(<<43,126,21,22,40,174,210,166,171,247,21,136,9,207,79,60>>)
ExampleIv == [j \in 0 .. 15 |-> j]
ExampleText == << AsBlock(<<107,193,190,226,46,64,159,150,233,61,126,17,115,147,23,42>>),
                  AsBlock(<<174,45,138,87,30,3,172,156,158,183,111,172,69,175,142,81>>),
                  AsBlock(<<48,200,28,70,163,92,228,17,229,251,193,25,26,10,82,239>>),
                  AsBlock(<<246,159,36,69,223,79,155,23,173,43,65,123,230,108,55,16>>) >>
ExampleCipher == << AsBlock(<<118,73,171,172,129,25,178,70,206,233,142,155,18,233,25,125>>),
                    AsBlock(<<80,134,203,155,80,114,25,238,149,219,17,58,145,118,120,178>>),
                    AsBlock(<<115,190,214,184,227,193,116,59,113,22,230,158,34,34,149,22>>),
                    AsBlock(<<63,241,202,161,104,31,172,9,18,14,202,48,117,134,225,167>>) >>

Counting(first, step) == [j \in 0 .. 15 |-> (first + step * j) % 256]
CountingKey(first) == [n \in 1 .. 4 |-> [k \in 0 .. 3 |-> (first + 4 * n + k) % 256]]

MCCbcCases ==
    {[key |-> ExampleKey, iv |-> ExampleIv, message |-> ExampleText, answer |-> ExampleCipher],
     [key |-> CountingKey(252), iv |-> Counting(255, 255),
      message |-> [n \in 1 .. 4 |-> Counting(64 * n, 17)]],
     [key |-> CountingKey(100), iv |-> Counting(0, 0),
      message |-> [n \in 1 .. 4 |-> Counting(255, 0)]],
     [key |-> CountingKey(28), iv |-> Counting(7, 3),
      message |-> [n \in 1 .. 2 |-> Counting(n, 16)]]}

(* code_new_code and code_broken_sig of app/test.c from byte 32 on, and    *)
(* their signatures.                                                       *)
code == <<
  1,17,34,236,0,16,183,7,0,16,35,52,244,254,131,55,132,254,19,7,80,4,35,128,231,0,131,55,132,254,19,7,
  128,7,35,128,231,0,131,55,132,254,19,7,80,6,35,128,231,0,131,55,132,254,19,7,48,6,35,128,231,0,131,55,
  132,254,19,7,80,7,35,128,231,0,131,55,132,254,19,7,64,7,35,128,231,0,131,55,132,254,19,7,144,6,35,128,
  231,0,131,55,132,254,19,7,224,6,35,128,231,0,131,55,132,254,19,7,112,6,35,128,231,0,131,55,132,254,19,7,
  0,2,35,128,231,0,131,55,132,254,19,7,96,6,35,128,231,0,131,55,132,254,19,7,32,7,35,128,231,0,131,55,
  132,254,19,7,240,6,35,128,231,0,131,55,132,254,19,7,208,6,35,128,231,0,131,55,132,254,19,7,0,2,35,128,
  231,0,131,55,132,254,19,7,224,4,35,128,231,0,131,55,132,254,19,7,80,4,35,128,231,0,131,55,132,254,19,7,
  112,5,35,128,231,0,131,55,132,254,19,7,0,2,35,128,231,0,131,55,132,254,19,7,48,6,35,128,231,0,131,55,
  132,254,19,7,240,6,35,128,231,0,131,55,132,254,19,7,64,6,35,128,231,0,131,55,132,254,19,7,80,6,35,128,
  231,0,131,55,132,254,19,7,16,2,35,128,231,0,131,55,132,254,41,71,35,128,231,0,1,0,98,100,5,97,130,128 >>
signature == <<68,223,213,4,90,137,141,27,14,227,33,66,4,244,90,142>>
broken_sig == <<255,223,213,4,90,137,141,27,14,227,33,66,4,244,90,142>>

CodeBlocks == [n \in 1 .. 20 |-> [j \in 0 .. 15 |-> code[16 * n + j - 15]]]
MCSigned ==
    {[signature |-> AsBlock(signature), message |-> CodeBlocks, genuine |-> TRUE],
     [signature |-> AsBlock(broken_sig), message |-> CodeBlocks, genuine |-> FALSE]}
=============================================================================
