------------------------------- MODULE MCPixels -------------------------------
(* Small matrices and outputs for model checking Pixels.                   *)
EXTENDS Pixels

Mat(w, h, n) == [cols |-> w, rows |-> h, channels |-> n, depth |-> 8]
Config(w, h, m, opacity) ==
  [width |-> w, height |-> h, margin |-> m, brightness |-> <<11, 10>>, opacity |-> opacity]
Job(i, m, c, n) == [image |-> i, mark |-> m, config |-> c, count |-> n]

Default == <<35, 100>>
Small == {Mat(1, 1, 3), Mat(2, 1, 4), Mat(3, 2, 4)}

(* Every matrix an int allows, for outputs of many ratios and a few whose  *)
(* size, width or number of blocks is at the limit or beyond it.           *)
Outputs == (1 .. 4) \X (1 .. 4) \cup
  {<<0, 1>>, <<15, 1>>, <<1, 15>>, <<2, 5>>, <<7, 3>>, <<5, 4>>, <<8, 3>>}
CropJobs == {Job(Mat(w, h, 3), Mat(1, 1, 3), Config(o[1], o[2], 0, Default), 1) :
               w \in 0 .. 7, h \in 1 .. 7, o \in Outputs}

(* Watermarks of every number of channels at every margin.  A chunk has    *)
(* room for one image of the larger output or for three of the smaller.    *)
MarkJobs == {Job(Mat(4, 3, 3), m, Config(o[1], o[2], margin, opacity), n) :
               m \in Small \cup {Mat(5, 3, 1), Mat(4, 7, 3), Mat(2, 2, 2)},
               o \in {<<5, 3>>, <<3, 2>>}, margin \in {0, 1, 2, 14, 15},
               opacity \in {<<0, 1>>, Default, <<1, 1>>}, n \in {1, 2, 3, 4}}
SmallJobs == CropJobs \cup MarkJobs \cup
  {[Job(Mat(2, 2, 3), Mat(1, 1, 3), Config(2, 2, 0, Default), 1) EXCEPT !.image.depth = 16]}

Uneven(i) == (37 * i + i \div 4) % 256
==============================================================================
