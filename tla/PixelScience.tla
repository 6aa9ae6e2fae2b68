---------------------------- MODULE PixelScience ----------------------------
(***************************************************************************)
(* processing-svc: what the samples of a pixel say.  The quality gate of a *)
(* granule and the renderer of its tiles both classify every pixel from    *)
(* its radiance, quality flag and, by product, cloud mask or observation   *)
(* count; the gate counts the classes, the renderer colours the pixel.     *)
(*                                                                         *)
(* A sample is an f32: in tenths when finite, else only its sign, which is *)
(* 0 for NaN.                                                              *)
(***************************************************************************)
EXTENDS Integers, Sequences, FiniteSets

U16Max == 65535
U8Max == 255
Tenths(n) == 10 * n
Sample(tenths) == [finite |-> TRUE, value |-> tenths]
NonFinite(sign) == [finite |-> FALSE, value |-> sign]

\* Product names as messages carry them.
Products == {"VNP46A2", "VJ146A2", "VNP46A3"}

\* The dataset mappings.  Daily products have a cloud mask, monthly ones an
\* observation count.
Mapping(product) ==
  [cadence |-> IF product = "VNP46A3" THEN "monthly" ELSE "daily",
   cloud_dataset |-> product # "VNP46A3",
   observation_count_dataset |-> product = "VNP46A3",
   radiance_fill_value |-> Sample(-9999),
   radiance_valid_min |-> 0]

\* sample_value_as_u16: empty for an error.
AsU16(sample) ==
  IF /\ sample.finite
     /\ sample.value \in 0..Tenths(U16Max)
     /\ sample.value % 10 = 0
  THEN {sample.value \div 10} ELSE {}

\* classify_radiance: TRUE for Valid.  Comparisons with NaN are false.
ClassifyRadiance(mapping, radiance) ==
  /\ radiance # mapping.radiance_fill_value
  /\ ~(radiance.value < mapping.radiance_valid_min)

\* classify_daily_quality and classify_monthly_quality
ClassifyQuality(mapping, flag) ==
  flag \in (IF mapping.cadence = "daily" THEN {0} ELSE {0, 2})

\* is_cloud_contaminated: bits 6 and 7
IsCloudContaminated(mask) == (mask \div 64) % 4 \in {2, 3}

\* Defect: the cast to u8 comes first.
QualityFlagWrapped(sample) == sample % (U8Max + 1)
\* quality_sample.min(u8::MAX) as u8
QualityFlag(sample) == IF sample < U8Max THEN sample ELSE U8Max

\* classify_pixel_sample: empty for an error.  Samples of a dataset the product
\* lacks are not looked at.
ClassifyPixel(mapping, pixel) ==
  {[radiance |-> ClassifyRadiance(mapping, pixel.radiance),
    quality |-> ClassifyQuality(mapping, QualityFlag(q)),
    cloudy |-> mapping.cloud_dataset /\ \A m \in AsU16(pixel.cloud) : IsCloudContaminated(m)] :
      q \in {u \in AsU16(pixel.quality) :
               /\ mapping.cloud_dataset => AsU16(pixel.cloud) # {}
               /\ mapping.observation_count_dataset => AsU16(pixel.observations) # {}}}

Valid(class) == class.radiance /\ class.quality

\* Defect: every cloudy pixel counts.
SummaryAllCloudy(classes) ==
  [total |-> Len(classes),
   valid |-> Cardinality({i \in DOMAIN classes : Valid(classes[i])}),
   cloudy |-> Cardinality({i \in DOMAIN classes : classes[i].cloudy})]

\* summarize_quality
Summary(classes) ==
  LET valid == {i \in DOMAIN classes : Valid(classes[i])} IN
  [total |-> Len(classes),
   valid |-> Cardinality(valid),
   cloudy |-> Cardinality({i \in valid : classes[i].cloudy})]

\* exceeds_max_cloud_fraction, in percent.  Without a valid pixel the fraction
\* is 0.
ExceedsMaxCloudFraction(summary, maxPercent) ==
  summary.valid > 0 /\ 100 * summary.cloudy > maxPercent * summary.valid

\* is_renderable_sample
IsRenderable(class) == Valid(class) /\ ~class.cloudy

\* The lower bound of each dark-sky class, in tenths.
DarkSkyMin == <<0, 2, 4, 10, 30, 60, 120, 250, 500>>

\* classify_dark_sky: the class number, 0 for none.
ClassifyDarkSky(radiance) ==
  IF ~radiance.finite \/ radiance.value < 0 THEN 0
  ELSE CHOOSE k \in 1..9 :
         /\ radiance.value >= DarkSkyMin[k]
         /\ k < 9 => radiance.value < DarkSkyMin[k + 1]

\* render_pixels_from_samples and render_pixel: the class whose colour the
\* pixel gets, 0 when it is transparent.
RenderPixel(class, radiance) ==
  IF IsRenderable(class) THEN ClassifyDarkSky(radiance) ELSE 0
=============================================================================
